---- MODULE Spec2Model ----
(***************************************************************************)
(* AgentGovern-OS: the edge gateway (passport verifier, local policy       *)
(* enforcer, local ledger, control-plane sync client) and the Passport     *)
(* Service of the identity service, as state machines.                     *)
(*                                                                         *)
(* Amounts are integers; trust scores are integers in percent (0.80 is 80). *)
(* A SHA-256 digest is modelled by the tuple of the values it is taken     *)
(* over (a collision-free hash); a uuid4 by a value that was never used.   *)
(***************************************************************************)
EXTENDS Integers, Sequences, FiniteSets, TLC

VARIABLES
    \* ---- edge gateway (services/edge-gateway)
    phase,              \* lifespan: "starting" | "running" | "stopped"
    now,                \* the wall clock
    mode,               \* PassportVerifier.mode
    revocation_set,     \* PassportVerifier._revocation_set
    rules,              \* LocalPolicyEnforcer._rules
    policy_version,     \* LocalPolicyEnforcer._policy_version
    entries,            \* LocalLedger._entries
    last_decision_id,   \* LocalLedger.last_decision_id
    sync,               \* the /sync handler: where it is and what is in flight
    last_sync,          \* what the most recent pull of the sync client returned
    resp,               \* the most recent /authorize exchange: request and response
    \* ---- Passport Service (services/identity-service)
    ps_revocation_set,  \* PassportService._revocation_set
    handed_out,         \* the tokens issue() has returned
    rot,                \* a rotate() call in progress
    vres,               \* the most recent PassportService.verify call and its outcome
    \* ---- LocalPolicyEnforcer.evaluate as a function
    e_in,               \* its arguments and the bundle it runs against
    e_out,              \* what it returned
    \* ---- LocalLedger and flush_ledger, driven call by call
    flush,              \* a flush_ledger call in progress, and the last calls' results
    \* ---- ANCESTOR DecisionLedger (services/crewai-engine/ancestor)
    anc,                \* the decisions table, the ledger instances and their calls
    \* ---- PolicyDistributionService (services/governance-api/policy)
    pds,                \* _bundles, _current, _rollback_stack and the last call
    \* ---- SENTINEL router (services/governance-api/routers/sentinel.py)
    sen,                \* one POST /api/v1/sentinel/evaluate: its inputs and its answer
    \* ---- EnvironmentRegistry (services/identity-service)
    reg,                \* _locations, _history, _alerts and the last heartbeat
    \* ---- AgentPassport construction and PassportService.issue
    iss,                \* the passport data handed in and the outcome
    \* ---- GovernanceClient (sdk/agentgovern/client.py)
    sdk,                \* one authorize() call: the gateway's answer and the result
    \* ---- ProphecyEngine (services/governance-api/policy/prophecy.py)
    pro,                \* simulate(): its arguments and the results of the calls
    \* ---- LocalPolicyEnforcer.evaluate, rule by rule, next to load_policy_bundle
    ev                  \* the evaluations in progress and the bundles loaded

vars == <<phase, now, mode, revocation_set, rules, policy_version, entries,
          last_decision_id, sync, last_sync, resp,
          ps_revocation_set, handed_out, rot, vres, e_in, e_out, flush, anc, pds,
          sen, reg, iss, sdk, pro, ev>>

gatewayVars == <<phase, mode, revocation_set, rules, policy_version, entries,
                 last_decision_id, sync, last_sync, resp>>
passportVars == <<handed_out, rot, vres>>
enforcerVars == <<e_in, e_out>>
laterVars == <<sen, reg, iss, sdk, pro, ev>>
otherVars == <<flush, anc, pds, laterVars>>

-----------------------------------------------------------------------------
(* Bounds of the model *)

MaxCalls == 2       \* /authorize calls handled
MaxTime == 1        \* clock ticks
MaxRules == 2       \* rules in a bundle handed to evaluate
MaxRotations == 1   \* rotate() calls

None == "<none>"
Absent == "<absent>"    \* a key a dict does not hold

Min(S) == CHOOSE x \in S : \A y \in S : x <= y

-----------------------------------------------------------------------------
(* LocalPolicyEnforcer *)

\* A faulty variant of TIER_RANK: the ranks run the other way
TIER_RANK_ascending(tier) ==
    CASE tier = "T1" -> 1
      [] tier = "T2" -> 2
      [] tier = "T3" -> 3
      [] tier = "T4" -> 4
      [] OTHER -> 0

TIER_RANK(tier) ==
    CASE tier = "T1" -> 4
      [] tier = "T2" -> 3
      [] tier = "T3" -> 2
      [] tier = "T4" -> 1
      [] OTHER -> 0

\* dict.get(key, default) on a rule
Get(rule, key, default) == IF rule[key] = Absent THEN default ELSE rule[key]

evaluate_rule(rule, tier, trust, limit, action, amount) ==
    CASE rule.type = "amount_limit"   -> amount <= rule.max_amount
      [] rule.type = "trust_minimum"  -> trust >= rule.min_trust
      [] rule.type = "tier_required"  -> tier \in rule.allowed_tiers
      [] rule.type = "tier_minimum"   -> TIER_RANK(tier) >= TIER_RANK(rule.min_tier)
      [] rule.type = "action_allowed" -> action \in rule.allowed_actions
      [] rule.type = "authority_limit" -> amount <= limit
      [] OTHER -> TRUE    \* unknown rule type: fail-open at the edge

RECURSIVE evaluate_loop(_, _, _, _, _, _, _)
evaluate_loop(rs, checked, tier, trust, limit, action, amount) ==
    IF checked = Len(rs)
    THEN [verdict |-> "allow",
          reason |-> [text |-> "All local policies passed", rule |-> ""],
          rules_checked |-> checked]
    ELSE LET rule == rs[checked + 1] IN
         IF ~evaluate_rule(rule, tier, trust, limit, action, amount)
         THEN [verdict |-> Get(rule, "on_fail", "deny"),
               reason |-> [text |-> "Rule failed", rule |-> Get(rule, "name", rule.type)],
               rules_checked |-> checked + 1]
         ELSE evaluate_loop(rs, checked + 1, tier, trust, limit, action, amount)

evaluate(rs, tier, trust, limit, action, amount) ==
    evaluate_loop(rs, 0, tier, trust, limit, action, amount)

load_policy_bundle(new_rules, version) ==
    [rules |-> new_rules, policy_version |-> version]

-----------------------------------------------------------------------------
(* Policy rules as the control plane serialises them (PolicyRule.to_dict)  *)

Rule(name, type, on_fail) ==
    [name |-> name, type |-> type, on_fail |-> on_fail,
     max_amount |-> 0, min_trust |-> 0, allowed_tiers |-> {}, min_tier |-> "T4",
     allowed_actions |-> {}, max_requests |-> 0, window_minutes |-> 0]

POL1 == [Rule("POL-1", "amount_limit", "deny") EXCEPT !.max_amount = 100000]
POL2 == Rule("POL-2", "authority_limit", "escalate")
POL3 == [Rule("POL-3", "trust_minimum", "escalate") EXCEPT !.min_trust = 60]
POL4 == [Rule("POL-4", "tier_minimum", "deny") EXCEPT !.min_tier = "T2"]
POL5 == [Rule("POL-5", "tier_required", Absent) EXCEPT !.allowed_tiers = {"T1", "T2"}]
POL6 == [Rule(Absent, "action_allowed", "deny") EXCEPT !.allowed_actions = {"read"}]
POL7 == [Rule("POL-7", "split_detection", "deny") EXCEPT !.max_requests = 1, !.window_minutes = 30]
POL8 == [Rule("POL-8", "amount_limit", "allow") EXCEPT !.max_amount = 50000]
POL9 == Rule("POL-9", "geo_fence", "deny")

RuleUniverse == {POL1, POL2, POL3, POL4, POL5, POL6, POL7, POL8, POL9}

RECURSIVE SeqsUpTo(_, _)
SeqsUpTo(S, n) ==
    IF n = 0 THEN {<< >>}
    ELSE LET shorter == SeqsUpTo(S, n - 1) IN
         shorter \cup {Append(s, x) : s \in {t \in shorter : Len(t) = n - 1}, x \in S}

EvalInputs ==
    [rules : SeqsUpTo(RuleUniverse, MaxRules),
     tier : {"T2", "T4"}, trust : {55, 60, 80}, limit : {50000},
     action : {"read", "write"}, amount : {45000, 50000, 80000}]

-----------------------------------------------------------------------------
(* Passports and tokens (identity-service/passport.py, PyJWT)               *)

JWT_SECRET == "dev-shared-secret-change-in-production"
GATEWAY_ID == "edge-gateway-001"
GATEWAY_ENVIRONMENT == "edge"

AgentPassport(agent_id, jti, expires_at, tier, trust_score, authority_limit, envs) ==
    [agent_id |-> agent_id, jti |-> jti, expires_at |-> expires_at, tier |-> tier,
     trust_score |-> trust_score, authority_limit |-> authority_limit,
     allowed_environments |-> envs]

\* jwt.encode(payload, key): the payload and the key that signed it
jwt_encode(payload, key) == [form |-> "jwt", key |-> key, payload |-> payload]

issue(passport, key) ==
    jwt_encode([sub |-> passport.agent_id,
                jti |-> passport.jti,
                exp |-> passport.expires_at,
                ag |-> [tier |-> passport.tier,
                        trust_score |-> passport.trust_score,
                        authority_limit |-> passport.authority_limit,
                        allowed_environments |-> passport.allowed_environments]],
               key)

NoClaims ==
    [sub |-> "", jti |-> "", exp |-> 0,
     ag |-> [tier |-> "", trust_score |-> 0, authority_limit |-> 0,
             allowed_environments |-> {}]]

\* jwt.decode(token, key, options={"verify_exp": True}): the signature is
\* checked before the claims; a token is expired once exp <= now.
jwt_decode(token, key, t) ==
    IF token.form # "jwt" THEN [error |-> "InvalidTokenError", decoded |-> NoClaims]
    ELSE IF token.key # key THEN [error |-> "InvalidTokenError", decoded |-> NoClaims]
    ELSE IF token.payload.exp <= t
         THEN [error |-> "ExpiredSignatureError", decoded |-> NoClaims]
    ELSE [error |-> "", decoded |-> token.payload]

-----------------------------------------------------------------------------
(* PassportVerifier (edge gateway)                                          *)

verifier_verify(token, revoked, t, m) ==
    LET d == jwt_decode(token, JWT_SECRET, t) IN
    IF d.error = "ExpiredSignatureError"
    THEN [valid |-> FALSE, claims |-> NoClaims, reason |-> "passport expired", mode |-> "online"]
    ELSE IF d.error = "InvalidTokenError"
    THEN [valid |-> FALSE, claims |-> NoClaims, reason |-> "invalid signature", mode |-> "online"]
    ELSE IF d.decoded.jti \in revoked
    THEN [valid |-> FALSE, claims |-> NoClaims, reason |-> "passport revoked", mode |-> m]
    ELSE [valid |-> TRUE, claims |-> d.decoded, reason |-> "", mode |-> m]

update_revocation_list(revoked_jtis) == revoked_jtis

-----------------------------------------------------------------------------
(* LocalLedger                                                              *)

\* LocalDecision._compute_hash: the digest of these seven fields
compute_hash(e) ==
    [id |-> e.id, agent_id |-> e.agent_id, action_type |-> e.action_type,
     verdict |-> e.verdict, amount |-> e.amount, environment |-> e.environment,
     timestamp |-> e.timestamp]

LocalDecision(id, timestamp, agent_id, action_type, resource, amount, environment, verdict, reason, passport_jti) ==
    LET e == [id |-> id, timestamp |-> timestamp, agent_id |-> agent_id,
              action_type |-> action_type, resource |-> resource, amount |-> amount,
              environment |-> environment, verdict |-> verdict, reason |-> reason,
              passport_jti |-> passport_jti, gateway_id |-> GATEWAY_ID,
              synced |-> FALSE]
    IN  [id |-> e.id, timestamp |-> e.timestamp, agent_id |-> e.agent_id,
         action_type |-> e.action_type, resource |-> e.resource, amount |-> e.amount,
         environment |-> e.environment, verdict |-> e.verdict, reason |-> e.reason,
         passport_jti |-> e.passport_jti, gateway_id |-> e.gateway_id,
         synced |-> e.synced, hash |-> compute_hash(e)]

\* uuid.uuid4(): an id no entry of the ledger carries
uuid4(es) == Len(es) + 1

\* A faulty variant of record_decision: the last id is not updated
record_decision_stale(es, last, entry) ==
    [entries |-> Append(es, entry), last_decision_id |-> last, id |-> entry.id]

\* record_decision: the ledger after the append, and the id it returns
record_decision(es, last, entry) ==
    [entries |-> Append(es, entry), last_decision_id |-> entry.id, id |-> entry.id]

get_unsynced(es) == SelectSeq(es, LAMBDA e : ~e.synced)

\* A faulty variant of mark_synced: the flag is assigned, not only set
mark_synced_assign(es, ids) ==
    [i \in 1..Len(es) |-> [es[i] EXCEPT !.synced = (es[i].id \in ids)]]

\* mark_synced: the entries afterwards
mark_synced(es, ids) ==
    [i \in 1..Len(es) |-> IF es[i].id \in ids THEN [es[i] EXCEPT !.synced = TRUE] ELSE es[i]]

Ids(es) == {es[i].id : i \in 1..Len(es)}

-----------------------------------------------------------------------------
(* What the gateway is sent                                                 *)

PassA == AgentPassport("agent-a", "jti-a", 9, "T2", 80, 50000, {"edge"})
PassB == AgentPassport("agent-b", "jti-b", 1, "T3", 55, 10000, {"cloud"})
\* The passport an operator revokes in this model (PassB runs out instead)
Jtis == {PassA.jti}

TokA == issue(PassA, JWT_SECRET)
TokB == issue(PassB, JWT_SECRET)
Forged == issue(PassA, "attacker-key")
Garbage == [form |-> "garbage", key |-> "", payload |-> NoClaims]

AuthorizeRequest(token, amount, environment) ==
    [passport_token |-> token, action_type |-> "write", resource |-> "invoice-db",
     amount |-> amount, environment |-> environment]

Requests ==
    {AuthorizeRequest(t, 45000, e) : t \in {TokA, TokB}, e \in {"edge", "cloud"}}
    \cup {AuthorizeRequest(TokA, 80000, "edge")}
    \cup {AuthorizeRequest(t, 45000, "edge") : t \in {Forged, Garbage}}

NoRequest == AuthorizeRequest(Garbage, 0, "")

\* The control plane's answers to GET /sentinel/policies/bundle: a connection
\* error or timeout (status 0), a refusal, or 200 with an edge-format bundle
\* {version, hash, rules}. The hash of a bundle is taken over its version, its
\* rules and its parent's hash (PolicyBundle._compute_hash).
\* A SHA-256 digest is the tuple of what was digested; "" is the empty tuple
EmptyHash == << >>

\* A faulty variant of BundleHash: the parent's hash is left out
BundleHashFlat(version, rs, parent_hash) == <<version, rs, EmptyHash>>

BundleHash(version, rs, parent_hash) == <<version, rs, parent_hash>>

EdgeBundle(version, rs, hash) == [version |-> version, rules |-> rs, hash |-> hash]

NoBundle == EdgeBundle("", << >>, BundleHash("", << >>, EmptyHash))
Bundle1 == EdgeBundle("v1", <<POL1>>, BundleHash("v1", <<POL1>>, EmptyHash))
Bundle2 == EdgeBundle("v2", <<POL1, POL2>>,
                      BundleHash("v2", <<POL1, POL2>>, Bundle1.hash))
\* The bundle after the split-request detection policy was published
Bundle3 == EdgeBundle("v3", <<POL1, POL7>>,
                      BundleHash("v3", <<POL1, POL7>>, Bundle2.hash))
\* Bundle2 with its rules stripped on the way: the hash no longer matches
Tampered == EdgeBundle("v2", << >>, Bundle2.hash)

HashRecomputes(b) == b.hash[1] = b.version /\ b.hash[2] = b.rules

HttpResponse(status, data) == [status_code |-> status, data |-> data]

PolicyResponses ==
    {HttpResponse(0, NoBundle), HttpResponse(503, NoBundle)}
    \cup {HttpResponse(200, b) : b \in {Bundle1, Bundle2, Bundle3, Tampered}}

\* GET /identity/revocation-list: {revoked_jtis: [...]}, or a 200 body
\* without that field
RevocationData(has_field, jtis) == [has_field |-> has_field, revoked_jtis |-> jtis]

RevocationResponses(snapshot) ==
    {HttpResponse(0, RevocationData(FALSE, {})),
     HttpResponse(503, RevocationData(FALSE, {})),
     HttpResponse(200, RevocationData(FALSE, {})),
     HttpResponse(200, RevocationData(TRUE, snapshot))}

FlushResponses == {0, 503, 200}

-----------------------------------------------------------------------------
(* ControlPlaneSyncClient                                                   *)

\* sync_policies: the enforcer afterwards and the status returned
sync_policies(r, cur_rules, cur_version) ==
    IF r.status_code = 200
    THEN [enforcer |-> load_policy_bundle(r.data.rules, r.data.version),
          status |-> "synced"]
    ELSE [enforcer |-> [rules |-> cur_rules, policy_version |-> cur_version],
          status |-> "failed"]

\* A faulty variant of sync_revocation_list
sync_revocation_list_reset(r, cur_revoked) ==
    [revocation_set |->
         update_revocation_list(IF r.status_code = 200 /\ r.data.has_field
                                THEN r.data.revoked_jtis ELSE {}),
     status |-> IF r.status_code = 200 THEN "synced" ELSE "failed"]

\* sync_revocation_list: the verifier's revocation set afterwards and the status
sync_revocation_list(r, cur_revoked) ==
    IF r.status_code = 200
    THEN [revocation_set |->
              update_revocation_list(IF r.data.has_field THEN r.data.revoked_jtis ELSE {}),
          status |-> "synced"]
    ELSE [revocation_set |-> cur_revoked, status |-> "failed"]

\* A faulty variant of flush_answered: any answer of the control plane counts
flush_answered_any(es, batch, status_code) ==
    IF status_code # 0 THEN [entries |-> mark_synced(es, batch), status |-> "flushed"]
    ELSE [entries |-> es, status |-> "failed"]

\* flush_ledger from the response on: the entries afterwards and the status
flush_answered(es, batch, status_code) ==
    IF status_code = 200 THEN [entries |-> mark_synced(es, batch), status |-> "flushed"]
    ELSE [entries |-> es, status |-> "failed"]

\* flush_ledger: the entries afterwards
flush_ledger(es, status_code) ==
    LET unsynced == get_unsynced(es) IN
    IF Len(unsynced) = 0 THEN es
    ELSE flush_answered(es, Ids(unsynced), status_code).entries

Pull(what, status, r) ==
    [what |-> what, status |-> status,
     genuine |-> (what = "policies" /\ r.status_code = 200) => HashRecomputes(r.data)]

NoPull == [what |-> None, status |-> None, genuine |-> TRUE]

-----------------------------------------------------------------------------
(* The /authorize handler (edge-gateway/main.py). The handler holds no      *)
(* await that suspends (verifier.verify does no I/O), so the event loop     *)
(* runs it to its end before it runs another handler: concurrent calls are  *)
(* handled one after the other, in any order.                               *)

Response(n, req, status_code, authorized, verdict, reason, agent_id, agent_tier, m, decision_id) ==
    [n |-> n, req |-> req, status_code |-> status_code, authorized |-> authorized,
     verdict |-> verdict, reason |-> reason, agent_id |-> agent_id,
     agent_tier |-> agent_tier, mode |-> m, decision_id |-> decision_id]

NoResponse ==
    Response(0, NoRequest, 0, FALSE, None, [text |-> "", rule |-> ""], "", "", None, 0)

\* A faulty variant of environment_permitted: the gateway's own environment
environment_permitted_here(req, ag) == GATEWAY_ENVIRONMENT \in ag.allowed_environments

\* Step 2 of the handler: is the agent allowed in the request's environment?
environment_permitted(req, ag) == req.environment \in ag.allowed_environments

\* The ledger and the response after the handler has run on req
authorize(req, n) ==
    LET result == verifier_verify(req.passport_token, revocation_set, now, mode)
        claims == result.claims
        agent_id == claims.sub
        ag == claims.ag
    IN
    IF ~result.valid
    THEN \* HTTPException(401)
         [entries |-> entries, last_decision_id |-> last_decision_id,
          resp |-> Response(n, req, 401, FALSE, None,
                            [text |-> result.reason, rule |-> ""], "", "", None, 0)]
    ELSE IF ~environment_permitted(req, ag)
    THEN LET led == record_decision(entries, last_decision_id,
                        LocalDecision(uuid4(entries), now, agent_id, req.action_type,
                                      req.resource, req.amount, req.environment, "deny",
                                      [text |-> "Environment not permitted", rule |-> ""],
                                      ""))
         IN  [entries |-> led.entries, last_decision_id |-> led.last_decision_id,
              resp |-> Response(n, req, 200, FALSE, "deny",
                                [text |-> "Environment not permitted", rule |-> ""],
                                agent_id, ag.tier, mode, led.last_decision_id)]
    ELSE LET verdict == evaluate(rules, ag.tier, ag.trust_score, ag.authority_limit,
                                 req.action_type, req.amount)
             led == record_decision(entries, last_decision_id,
                        LocalDecision(uuid4(entries), now, agent_id, req.action_type,
                                      req.resource, req.amount, req.environment,
                                      verdict.verdict, verdict.reason, claims.jti))
         IN  [entries |-> led.entries, last_decision_id |-> led.last_decision_id,
              resp |-> Response(n, req, 200, verdict.verdict = "allow", verdict.verdict,
                                verdict.reason, agent_id, ag.tier, mode, led.id)]

\* GET /status
status_mode == mode

-----------------------------------------------------------------------------
(* The edge gateway and the Passport Service's revocations                  *)

NoRotate == [pc |-> "idle", old_token |-> Garbage, old_valid |-> FALSE,
             new_passport |-> PassA, log |-> {}]
NoVerify == [token |-> Garbage, outcome |-> None, decoded |-> NoClaims]

IdlePassport ==
    /\ ps_revocation_set = {}
    /\ handed_out = {}
    /\ rot = NoRotate
    /\ vres = NoVerify

NoVerdict ==
    [verdict |-> None, reason |-> [text |-> "", rule |-> ""], rules_checked |-> 0]

IdleEnforcer ==
    /\ e_in = [rules |-> << >>, tier |-> "T4", trust |-> 0, limit |-> 0,
               action |-> "", amount |-> 0]
    /\ e_out = NoVerdict

-----------------------------------------------------------------------------
(* SENTINEL router: POST /api/v1/sentinel/evaluate                          *)

MaxPolicies == 2    \* active policies in the policies table

\* A row of the agents table, as far as evaluate_action reads it
Agent(agent_code, role, tier, trust_score, authority_limit, status) ==
    [agent_code |-> agent_code, role |-> role, tier |-> tier,
     trust_score |-> trust_score, authority_limit |-> authority_limit,
     status |-> status]

\* db.get(Agent, id) found nothing
NoAgent == Agent(None, "", "", 0, 0, "")

\* A row of the policies table; rule_definition is a dict with a "type"
Policy(policy_code, rule_definition, severity, action_on_violation, applies_to_roles, applies_to_tiers) ==
    [policy_code |-> policy_code, rule_definition |-> rule_definition,
     severity |-> severity, action_on_violation |-> action_on_violation,
     applies_to_roles |-> applies_to_roles, applies_to_tiers |-> applies_to_tiers]

RuleDefinition(type) == Rule(Absent, type, Absent)

\* _evaluate_rule of the router
sentinel_evaluate_rule(rule, agent, action) ==
    CASE rule.type = "amount_limit"  -> action.amount <= rule.max_amount
      [] rule.type = "trust_minimum" -> agent.trust_score >= rule.min_trust
      [] rule.type = "tier_required" -> agent.tier \in rule.allowed_tiers
      [] rule.type = "status_check"  -> agent.status = "active"
      [] OTHER -> TRUE    \* "pass if rule type unknown"

\* The policies the loop does not skip for this agent
applicable(policy, agent) ==
    /\ ("*" \in policy.applies_to_roles \/ agent.role \in policy.applies_to_roles)
    /\ ("*" \in policy.applies_to_tiers \/ agent.tier \in policy.applies_to_tiers)

SentinelVerdictResponse(status_code, verdict, policy_results, violations, confidence) ==
    [status_code |-> status_code, verdict |-> verdict,
     policy_results |-> policy_results, violations |-> violations,
     confidence |-> confidence]

NoSentinelVerdict == SentinelVerdictResponse(0, None, << >>, << >>, 0)

\* The handler: the agent is fetched, every applicable active policy is
\* evaluated in turn, and the verdict follows from the violations.
\* confidence is in hundredths.
evaluate_action(agent, policies, action) ==
    IF agent = NoAgent
    THEN SentinelVerdictResponse(404, None, << >>, << >>, 0)
    ELSE
    LET checked == SelectSeq(policies, LAMBDA p : applicable(p, agent))
        passed(p) == sentinel_evaluate_rule(p.rule_definition, agent, action)
        policy_results ==
            [i \in 1..Len(checked) |->
                [policy_code |-> checked[i].policy_code, passed |-> passed(checked[i]),
                 severity |-> checked[i].severity]]
        failed == SelectSeq(checked, LAMBDA p : ~passed(p))
        violations ==
            [i \in 1..Len(failed) |->
                [policy_code |-> failed[i].policy_code, severity |-> failed[i].severity,
                 action |-> failed[i].action_on_violation]]
    IN
    IF \E i \in 1..Len(violations) : violations[i].severity = "critical"
    THEN SentinelVerdictResponse(200, "block", policy_results, violations, 99)
    ELSE IF action.amount > agent.authority_limit
    THEN SentinelVerdictResponse(200, "escalate", policy_results, violations, 95)
    ELSE IF Len(violations) > 0
    THEN SentinelVerdictResponse(200, "escalate", policy_results, violations, 85)
    ELSE SentinelVerdictResponse(200, "approve", policy_results, violations, 92)

NoEvaluation == [agent |-> NoAgent, policies |-> << >>, action |-> [amount |-> 0]]

NoSentinel == [request |-> NoEvaluation, out |-> NoSentinelVerdict]

-----------------------------------------------------------------------------
(* ProphecyEngine (governance-api/policy/prophecy.py). Numbers are fixed     *)
(* point: trust scores and success rates in hundredths, trust deltas in     *)
(* hundredths, intermediate ratios, risks and weights in millionths, and    *)
(* the rounded risk_score, recommendation_weight and confidence in          *)
(* thousandths; financial_exposure is in hundredths of a currency unit.     *)

AUTHORITY_RATIO_THRESHOLD == 70     \* 0.70, hundredths
UNSTABLE_TRUST_THRESHOLD == 60      \* 0.60, hundredths
FIRST_ACTION_THRESHOLD == 5
ONE == 1000000                      \* 1.0 in millionths

Max(S) == CHOOSE x \in S : \A y \in S : x >= y

\* round(x, digits) of a value in millionths whose last `drop` decimal
\* digits are cut: to the nearest, a tie to the even neighbour
Round(x, drop) ==
    LET q == x \div drop
        r == x % drop
    IN  IF 2 * r > drop \/ (2 * r = drop /\ q % 2 = 1) THEN q + 1 ELSE q

\* amount / authority_limit in millionths, digit group by digit group
Ratio(amount, authority_limit) ==
    LET q0 == amount \div authority_limit
        r0 == amount % authority_limit
        q1 == (r0 * 1000) \div authority_limit
        r1 == (r0 * 1000) % authority_limit
        q2 == (r1 * 1000) \div authority_limit
    IN  q0 * ONE + q1 * 1000 + q2

\* round(amount * risk, 2) in hundredths, for a risk in millionths
Exposure(amount, risk) ==
    LET whole == amount * (risk \div 10000)
        x == amount * (risk % 10000)
        total == whole + x \div 10000
        r == x % 10000
    IN  IF 2 * r > 10000 \/ (2 * r = 10000 /\ total % 2 = 1) THEN total + 1 ELSE total

should_trigger(trust_score, amount, authority_limit, historical_action_count) ==
    IF authority_limit > 0 /\ amount * 100 >= AUTHORITY_RATIO_THRESHOLD * authority_limit
    THEN <<TRUE, "authority_ratio">>
    ELSE IF trust_score < UNSTABLE_TRUST_THRESHOLD
    THEN <<TRUE, "unstable_trust">>
    ELSE IF historical_action_count < FIRST_ACTION_THRESHOLD
    THEN <<TRUE, "limited_history">>
    ELSE <<FALSE, "">>

ProphecyPath(path_type, predicted_trust_delta, risk_score, financial_exposure, compliance_risk, cascade_effects, recommendation_weight, reasoning) ==
    [path_type |-> path_type, predicted_trust_delta |-> predicted_trust_delta,
     risk_score |-> risk_score, financial_exposure |-> financial_exposure,
     compliance_risk |-> compliance_risk, cascade_effects |-> cascade_effects,
     recommendation_weight |-> recommendation_weight, reasoning |-> reasoning]

\* A faulty variant of near_limit: a ratio of exactly 0.90 counts as near
near_limit_inclusive(auth_ratio) == auth_ratio >= 900000

\* if auth_ratio > 0.90: the action is near the authority limit
near_limit(auth_ratio) == auth_ratio > 900000

simulate_approve(trust, auth_ratio, success_rate, amount, tier) ==
    LET band == IF success_rate >= 85 THEN "high"
                ELSE IF success_rate >= 65 THEN "moderate" ELSE "low"
        predicted_delta == CASE band = "high" -> 3 [] band = "moderate" -> 1 [] OTHER -> -5
        base == CASE band = "high" -> 100000 + (auth_ratio * 2) \div 10
                  [] band = "moderate" -> 300000 + (auth_ratio * 3) \div 10
                  [] OTHER -> 500000 + (auth_ratio * 4) \div 10
        near == near_limit(auth_ratio)
        risk == IF near THEN Min({base + 200000, ONE}) ELSE base
        cascades ==
            (IF auth_ratio > 800000 THEN <<"uses_authority_limit">> ELSE << >>)
            \o (IF risk > 600000 THEN <<"compliance_review">> ELSE << >>)
        compliance_risk == IF risk > 700000 THEN "high"
                           ELSE IF risk > 400000 THEN "medium" ELSE "low"
        \* success_rate * (1 - risk) * 0.8
        weight == (success_rate * (ONE - risk) * 8) \div 1000
    IN  ProphecyPath("approve", predicted_delta, Round(risk, 1000),
                     Exposure(amount, risk), compliance_risk, cascades,
                     Round(weight, 1000), <<band, near>>)

simulate_deny(trust, auth_ratio, amount, tier) ==
    LET senior == tier \in {"T1", "T2"}
        \* 0.3 * (1 - auth_ratio)
        weight == (3 * (ONE - auth_ratio)) \div 10
    IN  ProphecyPath("deny", IF senior THEN -1 ELSE 0, 50, 0, "none",
                     <<"task_may_stall">> \o (IF senior THEN <<"senior_blocked">> ELSE << >>),
                     Round(weight, 1000), <<"deny", FALSE>>)

simulate_escalate(trust, auth_ratio, amount, tier) ==
    LET high_value == amount > 50000
        low_trust == trust < 50
        \* 0.5 * auth_ratio + 0.3 * (1 - trust), plus 0.2 for a low-trust agent
        weight == auth_ratio \div 2 + 3000 * (100 - trust)
                    + (IF low_trust THEN 200000 ELSE 0)
    IN  ProphecyPath("escalate", 2, IF high_value THEN 100 ELSE 150, amount * 5, "low",
                     <<"human_review">> \o (IF high_value THEN <<"senior_reviewer">> ELSE << >>),
                     Round(Min({weight, ONE}), 1000), <<"escalate", low_trust>>)

\* A faulty variant of FirstMax: the path with the smallest weight
FirstMin(paths) ==
    LET low == Min({paths[i].recommendation_weight : i \in 1..Len(paths)})
    IN  paths[Min({i \in 1..Len(paths) : paths[i].recommendation_weight = low})]

\* max(paths, key=...): the first path of the list with the largest weight
FirstMax(paths) ==
    LET top == Max({paths[i].recommendation_weight : i \in 1..Len(paths)})
    IN  paths[Min({i \in 1..Len(paths) : paths[i].recommendation_weight = top})]

\* sorted([...], reverse=True)[1]: the largest weight once one occurrence of
\* the largest is taken out
SecondWeight(paths) ==
    LET w == [i \in 1..Len(paths) |-> paths[i].recommendation_weight]
        top == Max({w[i] : i \in 1..Len(paths)})
        at == Min({i \in 1..Len(paths) : w[i] = top})
    IN  Max({w[i] : i \in (1..Len(paths)) \ {at}})

ProphecyResult(agent_id, action_type, amount, paths, recommended_path, confidence, trigger_reason, computed_at) ==
    [agent_id |-> agent_id, action_type |-> action_type, amount |-> amount,
     paths |-> paths, recommended_path |-> recommended_path,
     confidence |-> confidence, trigger_reason |-> trigger_reason,
     computed_at |-> computed_at]

\* simulate, called when the clock shows t
simulate(agent_id, action_type, amount, trust_score, tier, authority_limit, historical_success_rate, trigger_reason, t) ==
    LET authority_ratio == IF authority_limit > 0
                           THEN Ratio(amount, authority_limit) ELSE ONE
        approve == simulate_approve(trust_score, authority_ratio,
                                    historical_success_rate, amount, tier)
        deny == simulate_deny(trust_score, authority_ratio, amount, tier)
        escalate == simulate_escalate(trust_score, authority_ratio, amount, tier)
        paths == <<approve, deny, escalate>>
        best == FirstMax(paths)
        spread == best.recommendation_weight - SecondWeight(paths)
        confidence == Min({500 + spread, 1000})
    IN  ProphecyResult(agent_id, action_type, amount, paths, best.path_type,
                       confidence, trigger_reason, t)

NoSimulation == [agent_id |-> "", action_type |-> "", amount |-> 0, trust_score |-> 0,
                 tier |-> "", authority_limit |-> 0, historical_success_rate |-> 0,
                 trigger_reason |-> ""]

NoProphecy == [args |-> NoSimulation, results |-> << >>]

-----------------------------------------------------------------------------
(* EnvironmentRegistry (identity-service/environment_registry.py)           *)

ENVIRONMENT_TYPES == {"cloud", "edge", "client", "on-premise"}

RegistryAgents == {"agent-a", "agent-b"}

AgentLocation(agent_id, environment, host_id, last_seen) ==
    [agent_id |-> agent_id, environment |-> environment, host_id |-> host_id,
     last_seen |-> last_seen]

\* _locations.get(agent_id) of an agent that has no entry
NoLocation == AgentLocation(None, None, "", 0)

\* A faulty variant of suspicious_paths: the way back is flagged as well
suspicious_paths_both == {<<"client", "cloud">>, <<"cloud", "client">>}

suspicious_paths == {<<"client", "cloud">>}

CrossingAlert(agent_id, from_env, to_env, host_id, timestamp) ==
    [type |-> "unauthorized_environment_crossing", agent_id |-> agent_id,
     from |-> from_env, to |-> to_env, host_id |-> host_id,
     timestamp |-> timestamp, severity |-> "high"]

NoAlert == CrossingAlert("", "", "", "", 0)

\* _check_crossing: the alert list afterwards and the alert returned
check_crossing(alerts, agent_id, from_env, to_env, location, t) ==
    IF <<from_env, to_env>> \in suspicious_paths
    THEN LET alert == CrossingAlert(agent_id, from_env, to_env, location.host_id, t)
         IN  [alerts |-> Append(alerts, alert), alert |-> alert]
    ELSE [alerts |-> alerts, alert |-> NoAlert]

HeartbeatResult(status, alert, location) ==
    [status |-> status, alert |-> alert, location |-> location]

\* A faulty variant of heartbeat: a crossing is checked before anything is
\* stored, and a heartbeat that raises an alert stores nothing
heartbeat_alert_first(r, agent_id, environment, host_id, t) ==
    IF environment \notin ENVIRONMENT_TYPES
    THEN [locations |-> r.locations, history |-> r.history, alerts |-> r.alerts,
          ret |-> HeartbeatResult("error", NoAlert, NoLocation)]
    ELSE LET previous == r.locations[agent_id]
             prev_env == previous.environment
             location == AgentLocation(agent_id, environment, host_id, t)
             crossing == IF prev_env # None /\ prev_env # environment
                         THEN check_crossing(r.alerts, agent_id, prev_env, environment,
                                             location, t)
                         ELSE [alerts |-> r.alerts, alert |-> NoAlert]
         IN  IF crossing.alert # NoAlert
             THEN [locations |-> r.locations, history |-> r.history,
                   alerts |-> crossing.alerts,
                   ret |-> HeartbeatResult("alert", crossing.alert, NoLocation)]
             ELSE [locations |-> [r.locations EXCEPT ![agent_id] = location],
                   history |-> [r.history EXCEPT ![agent_id] = Append(@, environment)],
                   alerts |-> crossing.alerts,
                   ret |-> HeartbeatResult("ok", NoAlert, location)]

\* heartbeat at time t: _locations, _history and _alerts afterwards, and
\* what is returned
heartbeat(r, agent_id, environment, host_id, t) ==
    IF environment \notin ENVIRONMENT_TYPES
    THEN [locations |-> r.locations, history |-> r.history, alerts |-> r.alerts,
          ret |-> HeartbeatResult("error", NoAlert, NoLocation)]
    ELSE LET previous == r.locations[agent_id]
             prev_env == previous.environment
             location == AgentLocation(agent_id, environment, host_id, t)
             locations == [r.locations EXCEPT ![agent_id] = location]
             history == [r.history EXCEPT ![agent_id] = Append(@, environment)]
             crossing == IF prev_env # None /\ prev_env # environment
                         THEN check_crossing(r.alerts, agent_id, prev_env, environment,
                                             location, t)
                         ELSE [alerts |-> r.alerts, alert |-> NoAlert]
         IN  [locations |-> locations, history |-> history, alerts |-> crossing.alerts,
              ret |-> IF crossing.alert # NoAlert
                      THEN HeartbeatResult("alert", crossing.alert, NoLocation)
                      ELSE HeartbeatResult("ok", NoAlert, location)]

get_location(r, agent_id) == r.locations[agent_id]

get_environment_history(r, agent_id) == r.history[agent_id]

\* EnvironmentRegistry.__init__; calls lists the heartbeats made so far
NoRegistry ==
    [locations |-> [a \in RegistryAgents |-> NoLocation],
     history |-> [a \in RegistryAgents |-> << >>],
     alerts |-> << >>, calls |-> << >>]

-----------------------------------------------------------------------------
(* Idle values of the components a specification does not drive *)

NoFlush ==
    [pc |-> "idle", batch |-> {}, status |-> None, status_code |-> 0, owed |-> {},
     marked |-> {}, late |-> {}, rejected |-> {}]

Ledgers == {"L1", "L2"}

NoDecision ==
    [id |-> 0, agent_id |-> "", reasoning_trace |-> "", amount_involved |-> 0,
     timestamp |-> 0, prev_hash |-> EmptyHash, hash |-> EmptyHash]

NoCheck == [agent_id |-> None, valid |-> TRUE, checked |-> 0, broken_at |-> None,
            integrity_pct |-> 0, note |-> "not run"]

\* DecisionLedger.__init__ for every instance, on an empty decisions table
NoAncestor ==
    [store |-> << >>,
     last_hash |-> [l \in Ledgers |-> EmptyHash],
     pending |-> [l \in Ledgers |-> NoDecision],
     created |-> 0,
     tampered |-> 0,
     vc |-> NoCheck]

NoCall == [op |-> None, version |-> "", ret |-> 0]

\* PolicyDistributionService.__init__; _current is a position in _bundles,
\* 0 for None
NoBundles ==
    [bundles |-> << >>, current |-> 0, rollback_stack |-> << >>, last |-> NoCall,
     altered |-> 0]

\* The identity service between AgentPassport(...) and PassportService.issue:
\* the passport constructed and not yet issued, and one record per attempt
NoIssue == [pc |-> "idle", passport |-> << >>, log |-> << >>]
\* Default fail-open behaviour of the SDK
FAIL_OPEN == TRUE

\* A GovernanceClient not yet constructed, with the calls made through it
NoSdk == [pc |-> "unbuilt", fail_open |-> FAIL_OPEN, last_decision_id |-> "", log |-> << >>]

-----------------------------------------------------------------------------
(* LocalPolicyEnforcer.evaluate taken rule by rule. The for loop iterates   *)
(* the list object that self._rules named when the loop began;              *)
(* load_policy_bundle rebinds self._rules to another list and never         *)
(* changes a list in place.                                                 *)

Callers == {"c1", "c2"}     \* /authorize calls that may be in flight together

\* A faulty variant of iteration: every turn of the loop reads self._rules
iteration_live(snapshot, live) == live

\* The list the loop of evaluate goes through
iteration(snapshot, live) == snapshot

NoArgs == [tier |-> "", trust |-> 0, limit |-> 0, action |-> "", amount |-> 0]

NoEval ==
    [pc |-> "idle", args |-> NoArgs, snapshot |-> << >>, checked |-> 0,
     verdict |-> NoVerdict, seen |-> {}]

\* One turn of the loop of evaluate for a call in state c, or its return
evaluate_turn(c, live) ==
    LET rs == iteration(c.snapshot, live) IN
    IF c.checked >= Len(rs)
    THEN [c EXCEPT !.pc = "done",
                   !.verdict = [verdict |-> "allow",
                                reason |-> [text |-> "All local policies passed",
                                            rule |-> ""],
                                rules_checked |-> c.checked]]
    ELSE LET rule == rs[c.checked + 1] IN
         IF ~evaluate_rule(rule, c.args.tier, c.args.trust, c.args.limit,
                           c.args.action, c.args.amount)
         THEN [c EXCEPT !.pc = "done", !.checked = @ + 1,
                        !.verdict = [verdict |-> Get(rule, "on_fail", "deny"),
                                     reason |-> [text |-> "Rule failed",
                                                 rule |-> Get(rule, "name", rule.type)],
                                     rules_checked |-> c.checked + 1]]
         ELSE [c EXCEPT !.checked = @ + 1]

NoEvaluations ==
    [rules |-> << >>, policy_version |-> "0", loads |-> 0,
     calls |-> [c \in Callers |-> NoEval]]

IdleLater ==
    /\ sen = NoSentinel
    /\ reg = NoRegistry
    /\ iss = NoIssue
    /\ sdk = NoSdk
    /\ pro = NoProphecy
    /\ ev = NoEvaluations

IdleOthers ==
    /\ flush = NoFlush
    /\ anc = NoAncestor
    /\ pds = NoBundles
    /\ IdleLater

IdleGateway ==
    /\ phase = "starting"
    /\ mode = "online"
    /\ revocation_set = {}
    /\ rules = << >>
    /\ policy_version = "0"
    /\ entries = << >>
    /\ last_decision_id = 0
    /\ sync = [pc |-> "idle", revoked_jtis |-> {}]
    /\ last_sync = NoPull
    /\ resp = NoResponse

\* lifespan: the objects as constructed, before the initial sync
Init ==
    /\ now = 0
    /\ IdleGateway
    /\ IdlePassport
    /\ IdleEnforcer
    /\ IdleOthers

ledgerVars == <<entries, last_decision_id>>

\* lifespan, startup: the initial pull of the policies, before any request
\* is served
StartupPolicies ==
    /\ phase = "starting"
    /\ \E pr \in PolicyResponses :
          LET p == sync_policies(pr, rules, policy_version) IN
          /\ rules' = p.enforcer.rules
          /\ policy_version' = p.enforcer.policy_version
          /\ last_sync' = Pull("policies", p.status, pr)
    /\ phase' = "starting_revocation"
    /\ UNCHANGED <<now, mode, revocation_set, ledgerVars, sync, resp, ps_revocation_set,
                   passportVars, enforcerVars, otherVars>>

\* lifespan, startup: the initial pull of the revocation list; the gateway
\* then serves requests
StartupRevocation ==
    /\ phase = "starting_revocation"
    /\ \E rr \in RevocationResponses(ps_revocation_set) :
          LET r == sync_revocation_list(rr, revocation_set) IN
          /\ revocation_set' = r.revocation_set
          /\ last_sync' = Pull("revocation", r.status, rr)
    /\ phase' = "running"
    /\ UNCHANGED <<now, mode, rules, policy_version, ledgerVars, sync, resp,
                   ps_revocation_set, passportVars, enforcerVars, otherVars>>

\* POST /authorize
Authorize ==
    /\ phase = "running"
    /\ resp.n < MaxCalls
    /\ \E req \in Requests :
          LET a == authorize(req, resp.n + 1) IN
          /\ entries' = a.entries
          /\ last_decision_id' = a.last_decision_id
          /\ resp' = a.resp
    /\ UNCHANGED <<phase, now, mode, revocation_set, rules, policy_version, sync,
                   last_sync, ps_revocation_set, passportVars, enforcerVars, otherVars>>

\* POST /sync: the handler sends GET /sentinel/policies/bundle and waits
TriggerSync ==
    /\ phase = "running"
    /\ sync.pc = "idle"
    /\ sync' = [sync EXCEPT !.pc = "policies"]
    /\ UNCHANGED <<phase, now, mode, revocation_set, rules, policy_version, ledgerVars,
                   last_sync, resp, ps_revocation_set, passportVars, enforcerVars, otherVars>>

\* sync_policies resumes with the answer; the handler goes on to send
\* GET /identity/revocation-list
PolicyResponse ==
    /\ sync.pc = "policies"
    /\ \E pr \in PolicyResponses :
          LET p == sync_policies(pr, rules, policy_version) IN
          /\ rules' = p.enforcer.rules
          /\ policy_version' = p.enforcer.policy_version
          /\ last_sync' = Pull("policies", p.status, pr)
    /\ sync' = [sync EXCEPT !.pc = "revocation"]
    /\ UNCHANGED <<phase, now, mode, revocation_set, ledgerVars, resp,
                   ps_revocation_set, passportVars, enforcerVars, otherVars>>

\* The control plane answers from get_revocation_list()
RevocationServe ==
    /\ sync.pc = "revocation"
    /\ sync' = [pc |-> "revocation_answered", revoked_jtis |-> ps_revocation_set]
    /\ UNCHANGED <<phase, now, mode, revocation_set, rules, policy_version, ledgerVars,
                   last_sync, resp, ps_revocation_set, passportVars, enforcerVars, otherVars>>

\* sync_revocation_list resumes with the answer (or with no answer at all);
\* the handler returns
RevocationResponse ==
    /\ sync.pc \in {"revocation", "revocation_answered"}
    /\ \E rr \in RevocationResponses(sync.revoked_jtis) :
          /\ sync.pc = "revocation" => rr.status_code = 0
          /\ LET r == sync_revocation_list(rr, revocation_set) IN
             /\ revocation_set' = r.revocation_set
             /\ last_sync' = Pull("revocation", r.status, rr)
    /\ sync' = [pc |-> "idle", revoked_jtis |-> {}]
    /\ UNCHANGED <<phase, now, mode, rules, policy_version, ledgerVars, resp,
                   ps_revocation_set, passportVars, enforcerVars, otherVars>>

\* lifespan, shutdown: flush the ledger
Shutdown ==
    /\ phase = "running"
    /\ sync.pc = "idle"
    /\ \E status_code \in FlushResponses :
          entries' = flush_ledger(entries, status_code)
    /\ phase' = "stopped"
    /\ UNCHANGED <<now, mode, revocation_set, rules, policy_version, last_decision_id,
                   sync, last_sync, resp, ps_revocation_set, passportVars, enforcerVars, otherVars>>

\* PassportService.revoke
revoke(revoked, jti) == revoked \cup {jti}

Revoke ==
    /\ phase # "stopped"
    /\ \E jti \in Jtis :
          /\ jti \notin ps_revocation_set
          /\ ps_revocation_set' = revoke(ps_revocation_set, jti)
    /\ UNCHANGED <<now, gatewayVars, passportVars, enforcerVars, otherVars>>

Tick ==
    /\ phase # "stopped"
    /\ now < MaxTime
    /\ now' = now + 1
    /\ UNCHANGED <<gatewayVars, ps_revocation_set, passportVars, enforcerVars, otherVars>>

Next ==
    \/ StartupPolicies
    \/ StartupRevocation
    \/ Authorize
    \/ TriggerSync
    \/ PolicyResponse
    \/ RevocationServe
    \/ RevocationResponse
    \/ Shutdown
    \/ Revoke
    \/ Tick

Spec == Init /\ [][Next]_vars

\* The gateway keeps running, /sync keeps being triggered and every request
\* the sync client sends is answered; from some point on the control plane is
\* reachable, so the pulls succeed again and again.
PolicySynced == PolicyResponse /\ last_sync'.status = "synced"
RevocationSynced == RevocationResponse /\ last_sync'.status = "synced"

LiveSpec ==
    /\ Spec
    /\ WF_vars(StartupPolicies) /\ WF_vars(StartupRevocation)
    /\ WF_vars(TriggerSync)
    /\ SF_vars(RevocationServe) /\ SF_vars(PolicySynced) /\ SF_vars(RevocationSynced)

-----------------------------------------------------------------------------
(* Steps of the gateway, as the properties below name them *)

AuthorizeStep == resp'.n = resp.n + 1

PolicyPullStep ==
    \/ sync.pc = "policies" /\ sync'.pc = "revocation"
    \/ phase = "starting" /\ phase' = "starting_revocation"

RevocationPullStep ==
    \/ sync.pc \in {"revocation", "revocation_answered"} /\ sync'.pc = "idle"
    \/ phase = "starting_revocation" /\ phase' = "running"

Last(es) == es[Len(es)]

-----------------------------------------------------------------------------
(* C1: every Authorize call ends in exactly one of two ways: a verdict with *)
(* a decision_id, exactly one record appended by the call, decision_id the  *)
(* id of that record and the record's verdict the returned one; or a 401    *)
(* (expired, malformed, badly signed, revoked) and an unchanged ledger.     *)

C1_AuthorizeOutcome ==
    [][AuthorizeStep =>
        \/ /\ resp'.status_code = 200
           /\ resp'.verdict # None
           /\ Len(entries') = Len(entries) + 1
           /\ SubSeq(entries', 1, Len(entries)) = entries
           /\ Last(entries').id = resp'.decision_id
           /\ Last(entries').id \notin Ids(entries)
           /\ Last(entries').verdict = resp'.verdict
        \/ /\ resp'.status_code = 401
           /\ resp'.verdict = None
           /\ resp'.reason.text \in {"passport expired", "invalid signature",
                                     "passport revoked"}
           /\ entries' = entries
           /\ last_decision_id' = last_decision_id]_vars

\* a denial for the environment, recorded after an earlier decision
C1_Witness ==
    /\ resp.n = 2
    /\ Len(entries) = 2
    /\ resp.status_code = 200
    /\ resp.reason.text = "Environment not permitted"
    /\ resp.decision_id = entries[2].id

-----------------------------------------------------------------------------
\* The digest the decision record of the data model carries
ChainedHash(e, prev_hash) ==
    [id |-> e.id, agent_id |-> e.agent_id, action_type |-> e.action_type,
     verdict |-> e.verdict, amount |-> e.amount, environment |-> e.environment,
     timestamp |-> e.timestamp, prev_hash |-> prev_hash]

(* C2: the local ledger is a hash chain: the first record has prev_hash "", *)
(* every later record's prev_hash is the hash of the record before it, and  *)
(* every record's hash recomputes from its fields including prev_hash.      *)

C2_LedgerIsHashChain ==
    \A i \in 1..Len(entries) :
        /\ "prev_hash" \in DOMAIN entries[i]
        /\ IF i = 1 THEN entries[i].prev_hash = ""
                    ELSE entries[i].prev_hash = entries[i - 1].hash
        /\ entries[i].hash = ChainedHash(entries[i], entries[i].prev_hash)

-----------------------------------------------------------------------------
(* C4: for a verified passport, a request for an environment outside the    *)
(* passport's allowed_environments is answered deny, authorized=false, and  *)
(* exactly one record with verdict deny for that agent is appended,         *)
(* whatever rules the bundle holds.                                         *)

C4_EnvironmentDenied ==
    [][(/\ AuthorizeStep
        /\ verifier_verify(resp'.req.passport_token, revocation_set, now, mode).valid
        /\ resp'.req.environment
              \notin resp'.req.passport_token.payload.ag.allowed_environments)
       => /\ resp'.status_code = 200
          /\ resp'.verdict = "deny"
          /\ resp'.authorized = FALSE
          /\ Len(entries') = Len(entries) + 1
          /\ SubSeq(entries', 1, Len(entries)) = entries
          /\ Last(entries').verdict = "deny"
          /\ Last(entries').agent_id = resp'.req.passport_token.payload.sub]_vars

\* denied for the environment although the rules in force allow the request
C4_Witness ==
    /\ resp.status_code = 200
    /\ resp.req.environment \notin resp.req.passport_token.payload.ag.allowed_environments
    /\ resp.verdict = "deny"
    /\ rules # << >>
    /\ evaluate(rules, resp.req.passport_token.payload.ag.tier,
                resp.req.passport_token.payload.ag.trust_score,
                resp.req.passport_token.payload.ag.authority_limit,
                resp.req.action_type, resp.req.amount).verdict = "allow"

-----------------------------------------------------------------------------
(* C5: once Revoke(J) was performed at the Passport Service, every later    *)
(* Authorize at the gateway that presents the passport with jti J is        *)
(* rejected with 401 (passport revoked) and writes no ledger record.        *)

C5_RevokedIsRejected ==
    [][(/\ AuthorizeStep
        /\ jwt_decode(resp'.req.passport_token, JWT_SECRET, now).error = ""
        /\ resp'.req.passport_token.payload.jti \in ps_revocation_set)
       => /\ resp'.status_code = 401
          /\ resp'.reason.text = "passport revoked"
          /\ entries' = entries]_vars

-----------------------------------------------------------------------------
(* C33: the edge verifier's revocation set never loses an entry: no step    *)
(* removes a jti from it, and once Authorize has rejected a passport as     *)
(* revoked, a later Authorize presenting the same passport is rejected too, *)
(* whatever revocation pulls were applied in between.                       *)

C33_RevocationSetMonotonic ==
    [][/\ revocation_set \subseteq revocation_set'
       /\ (/\ AuthorizeStep
           /\ resp.status_code = 401
           /\ resp.reason.text = "passport revoked"
           /\ resp'.req.passport_token = resp.req.passport_token)
          => resp'.status_code = 401]_vars

-----------------------------------------------------------------------------
(* C7: after a sync attempt that failed, the gateway's mode is degraded     *)
(* (/status reports it) until a later sync succeeds.                        *)

C7_DegradedAfterFailedSync ==
    last_sync.status = "failed" => status_mode = "degraded"

-----------------------------------------------------------------------------
Answer(req) ==
    LET v == verifier_verify(req.passport_token, revocation_set, now, mode) IN
    IF ~v.valid THEN v.reason
    ELSE evaluate(rules, v.claims.ag.tier, v.claims.ag.trust_score,
                  v.claims.ag.authority_limit, req.action_type, req.amount).verdict

(* C8: a policy pull or revocation pull that fails leaves the enforcer's    *)
(* rules and version and the verifier's revocation set as they were, so     *)
(* every request is answered as it would have been before the attempt.      *)

C8_FailedPullChangesNothing ==
    [][((PolicyPullStep \/ RevocationPullStep) /\ last_sync'.status = "failed")
       => /\ rules' = rules
          /\ policy_version' = policy_version
          /\ revocation_set' = revocation_set
          /\ \A req \in Requests : Answer(req)' = Answer(req)]_vars

\* a failed pull at a gateway that holds a bundle and a revoked jti
C8_Witness ==
    /\ last_sync.status = "failed"
    /\ rules # << >>
    /\ revocation_set # {}

-----------------------------------------------------------------------------
(* C9: the enforcer only loads a pulled bundle whose hash recomputes from   *)
(* its content; a response whose hash does not match its version and rules  *)
(* is rejected and rules and version are not swapped.                       *)

C9_MismatchedBundleRejected ==
    [][(PolicyPullStep /\ ~last_sync'.genuine)
       => /\ rules' = rules
          /\ policy_version' = policy_version
          /\ last_sync'.status = "failed"]_vars

-----------------------------------------------------------------------------
(* C10: while the gateway keeps running and the control plane is reachable, *)
(* every decision appended to the ledger is eventually marked synced (by    *)
(* the recurring tick or the /sync trigger), without a shutdown.            *)

C10_EventuallySynced ==
    (phase = "running" /\ Len(get_unsynced(entries)) > 0)
        ~> (Len(get_unsynced(entries)) = 0 \/ phase = "stopped")

-----------------------------------------------------------------------------
SplitRules(rs) == {i \in 1..Len(rs) : rs[i].type = "split_detection"}

\* The requests of an agent on the ledger that are similar to req (same
\* action on the same resource) and were made less than window_minutes
\* before t
SimilarRequests(es, agent_id, req, t, window_minutes) ==
    {j \in 1..Len(es) :
        /\ es[j].agent_id = agent_id
        /\ es[j].action_type = req.action_type
        /\ es[j].resource = req.resource
        /\ t - es[j].timestamp < window_minutes}

(* C20: when the current bundle holds a split_detection rule, a request of  *)
(* an agent that has already made max_requests or more similar requests in *)
(* the last window_minutes is not answered allow: it receives an on_fail   *)
(* verdict.                                                                *)

C20_SplitDetectionLimits ==
    [][(AuthorizeStep /\ resp'.status_code = 200)
       => \A i \in SplitRules(rules) :
             Cardinality(SimilarRequests(entries, resp'.agent_id, resp'.req, now,
                                         rules[i].window_minutes))
                 >= rules[i].max_requests
             => resp'.verdict # "allow"]_vars

-----------------------------------------------------------------------------
\* The agent's earlier requests of the same action type on the ledger
history_count(es, agent_id, action_type) ==
    Cardinality({j \in 1..Len(es) :
                    es[j].agent_id = agent_id /\ es[j].action_type = action_type})

(* C23: whenever an /authorize call passes the environment check and the    *)
(* prophecy trigger holds for it (amount / authority_limit >= 0.70, or      *)
(* trust_score < 0.60, or history_count < 5), the decision record appended  *)
(* for the call carries the prophecy's three paths (approve, deny,          *)
(* escalate).                                                               *)

C23_ProphecyAttached ==
    [][(/\ AuthorizeStep
        /\ resp'.status_code = 200
        /\ environment_permitted(resp'.req, resp'.req.passport_token.payload.ag)
        /\ LET ag == resp'.req.passport_token.payload.ag IN
           should_trigger(ag.trust_score, resp'.req.amount, ag.authority_limit,
                          history_count(entries, resp'.agent_id,
                                        resp'.req.action_type))[1])
       => LET d == Last(entries') IN
          /\ "prophecy" \in DOMAIN d
          /\ {d.prophecy.paths[i].path_type : i \in 1..Len(d.prophecy.paths)}
                = {"approve", "deny", "escalate"}]_vars

-----------------------------------------------------------------------------
(* The gateway while the control plane cannot be reached for a flush: it    *)
(* has started, holds a bundle and has already recorded decisions that are  *)
(* still unsynced. resp counts the /authorize calls handled from here on.   *)

MaxBacklog == 2     \* unsynced decisions already on the ledger
LedgerHardCap == 1  \* the hard cap on unsynced records, scaled to the model

RECURSIVE Backlog(_)
Backlog(k) ==
    IF k = 0 THEN [entries |-> << >>, last_decision_id |-> 0, id |-> 0]
    ELSE LET before == Backlog(k - 1) IN
         record_decision(before.entries, before.last_decision_id,
             LocalDecision(uuid4(before.entries), 0, PassA.agent_id, "write",
                           "invoice-db", 45000, "edge", "allow",
                           [text |-> "All local policies passed", rule |-> ""],
                           PassA.jti))

InitBacklog ==
    /\ now = 0
    /\ phase = "running"
    /\ mode = "online"
    /\ revocation_set = {}
    /\ \E b \in {Bundle1, Bundle2} :
          /\ rules = load_policy_bundle(b.rules, b.version).rules
          /\ policy_version = load_policy_bundle(b.rules, b.version).policy_version
    /\ \E k \in 0..MaxBacklog :
          /\ entries = Backlog(k).entries
          /\ last_decision_id = Backlog(k).last_decision_id
    /\ sync = [pc |-> "idle", revoked_jtis |-> {}]
    /\ last_sync = Pull("revocation", "synced", HttpResponse(200, RevocationData(TRUE, {})))
    /\ resp = NoResponse
    /\ IdlePassport
    /\ IdleEnforcer
    /\ IdleOthers

NextBacklog ==
    \/ Authorize
    \/ Shutdown
    \/ Tick

SpecBacklog == InitBacklog /\ [][NextBacklog]_vars

unsynced_count(es) == Len(get_unsynced(es))

(* C22: while more unsynced records than the hard cap are on the ledger,    *)
(* no /authorize call is answered allow: a request that the rules would     *)
(* allow is answered escalate with the reason "ledger backpressure".        *)

C22_BackpressureEscalates ==
    [][(AuthorizeStep /\ resp'.status_code = 200
            /\ unsynced_count(entries) > LedgerHardCap)
       => /\ resp'.verdict # "allow"
          /\ evaluate(rules, resp'.req.passport_token.payload.ag.tier,
                      resp'.req.passport_token.payload.ag.trust_score,
                      resp'.req.passport_token.payload.ag.authority_limit,
                      resp'.req.action_type, resp'.req.amount).verdict = "allow"
                /\ environment_permitted(resp'.req, resp'.req.passport_token.payload.ag)
             => /\ resp'.verdict = "escalate"
                /\ resp'.reason.text = "ledger backpressure"]_vars

-----------------------------------------------------------------------------
(* PassportService (identity-service/passport.py): issue, verify, revoke    *)
(* and rotate, called from several threads. rotate is two steps: the old    *)
(* token is verified and revoked, then the new one is issued and returned.  *)

TOKEN_TTL_HOURS == 24

\* PassportService.verify: the decoded payload, or the exception raised
ps_verify(token, revoked, t) ==
    LET d == jwt_decode(token, JWT_SECRET, t) IN
    IF d.error # "" THEN [outcome |-> d.error, decoded |-> NoClaims]
    ELSE IF d.decoded.jti \in revoked
         THEN [outcome |-> "ValueError: Passport revoked", decoded |-> NoClaims]
    ELSE [outcome |-> "ok", decoded |-> d.decoded]

\* A faulty variant of rotate_old: the subject revoked in place of the jti
rotate_old_by_sub(old_token, revoked, t) ==
    LET v == ps_verify(old_token, revoked, t) IN
    IF v.outcome = "ok" THEN revoke(revoked, v.decoded.sub) ELSE revoked

\* rotate, the try block: the revocation set after it
rotate_old(old_token, revoked, t) ==
    LET v == ps_verify(old_token, revoked, t) IN
    IF v.outcome = "ok" THEN revoke(revoked, v.decoded.jti) ELSE revoked

\* The jti of a newly constructed AgentPassport: uuid4, never seen before
FreshJtis == <<"jti-r1", "jti-r2", "jti-r3">>

\* The passport a tier change issues: a new AgentPassport with the default
\* jti and the default expiry
NewPassport(k, t) ==
    AgentPassport("agent-a", FreshJtis[k], t + TOKEN_TTL_HOURS, "T1", 92, 100000,
                  {"cloud", "edge"})

\* The passport of a promoted agent built from the one it holds: the fields
\* of PassA with the new tier, the jti carried over
PromotedPassport(t) ==
    AgentPassport(PassA.agent_id, PassA.jti, t + TOKEN_TTL_HOURS, "T1", 92, 100000,
                  {"cloud", "edge"})

Presented == handed_out \cup {Forged}

InitPassport ==
    /\ now = 0
    /\ IdleGateway
    /\ IdlePassport
    /\ IdleEnforcer
    /\ IdleOthers

PsIssue ==
    /\ \E p \in {PassA, PassB} :
          /\ issue(p, JWT_SECRET) \notin handed_out
          /\ handed_out' = handed_out \cup {issue(p, JWT_SECRET)}
    /\ UNCHANGED <<now, gatewayVars, ps_revocation_set, rot, vres, enforcerVars, otherVars>>

PsVerify ==
    /\ vres.outcome = None
    /\ \E token \in Presented :
          LET v == ps_verify(token, ps_revocation_set, now) IN
          vres' = [token |-> token, outcome |-> v.outcome, decoded |-> v.decoded]
    /\ UNCHANGED <<now, gatewayVars, ps_revocation_set, handed_out, rot, enforcerVars, otherVars>>

PsVerifyReturn ==
    /\ vres.outcome # None
    /\ vres' = NoVerify
    /\ UNCHANGED <<now, gatewayVars, ps_revocation_set, handed_out, rot, enforcerVars, otherVars>>

RotateRevoke ==
    /\ rot.pc = "idle"
    /\ Cardinality(rot.log) < MaxRotations
    /\ Cardinality(rot.log) < Len(FreshJtis)
    /\ \E old_token \in Presented,
          new_passport \in {NewPassport(Cardinality(rot.log) + 1, now),
                            PromotedPassport(now)} :
          /\ ps_revocation_set' = rotate_old(old_token, ps_revocation_set, now)
          /\ rot' = [rot EXCEPT
                       !.pc = "issuing",
                       !.old_token = old_token,
                       !.old_valid = ps_verify(old_token, ps_revocation_set, now).outcome = "ok",
                       !.new_passport = new_passport]
    /\ UNCHANGED <<now, gatewayVars, handed_out, vres, enforcerVars, otherVars>>

RotateIssue ==
    /\ rot.pc = "issuing"
    /\ handed_out' = handed_out \cup {issue(rot.new_passport, JWT_SECRET)}
    /\ rot' = [NoRotate EXCEPT
                 !.log = rot.log \cup {[old_token |-> rot.old_token,
                                        old_valid |-> rot.old_valid,
                                        new_token |-> issue(rot.new_passport, JWT_SECRET)]}]
    /\ UNCHANGED <<now, gatewayVars, ps_revocation_set, vres, enforcerVars, otherVars>>

NextPassport ==
    \/ PsIssue
    \/ PsVerify
    \/ PsVerifyReturn
    \/ RotateRevoke
    \/ RotateIssue
    \/ Revoke
    \/ Tick

SpecPassport == InitPassport /\ [][NextPassport]_vars

-----------------------------------------------------------------------------
Revoked == "ValueError: Passport revoked"

(* C6, as stated: after Rotate(old_token, new_passport) of a valid          *)
(* unrevoked old token, Verify(old_token) fails as revoked and              *)
(* Verify(new_token) returns the new passport's claims; the old jti is      *)
(* revoked before the new token is returned.                                *)

-----------------------------------------------------------------------------
\* rotate has gone through its try block / has returned
RotateRevokeStep == rot.pc = "idle" /\ rot'.pc = "issuing"
RotateReturnStep == rot.pc = "issuing" /\ rot'.pc = "idle"

(* C27: rotate adds the jti of the old token to the revocation set even     *)
(* when the old token has already expired, and still returns a newly        *)
(* issued token.                                                            *)

C27_RotateRevokesExpired ==
    [][/\ (/\ RotateRevokeStep
           /\ rot'.old_token.form = "jwt"
           /\ rot'.old_token.key = JWT_SECRET
           /\ rot'.old_token.payload.exp <= now)
          => rot'.old_token.payload.jti \in ps_revocation_set'
       /\ RotateReturnStep
          => \E r \in rot'.log \ rot.log :
                /\ r.new_token = issue(rot.new_passport, JWT_SECRET)
                /\ r.new_token \in handed_out']_vars

-----------------------------------------------------------------------------
(* LocalPolicyEnforcer.evaluate as a function of the bundle and its inputs   *)

InitEnforcer ==
    /\ now = 0
    /\ IdleGateway
    /\ IdlePassport
    /\ e_in \in EvalInputs
    /\ e_out = NoVerdict
    /\ IdleOthers

Evaluate ==
    /\ e_out.verdict = None
    /\ e_out' = evaluate(e_in.rules, e_in.tier, e_in.trust, e_in.limit,
                         e_in.action, e_in.amount)
    /\ UNCHANGED <<now, gatewayVars, ps_revocation_set, passportVars, e_in, otherVars>>

NextEnforcer == Evaluate

SpecEnforcer == InitEnforcer /\ [][NextEnforcer]_vars

-----------------------------------------------------------------------------
Failing(in) ==
    {i \in 1..Len(in.rules) :
        ~evaluate_rule(in.rules[i], in.tier, in.trust, in.limit, in.action, in.amount)}

(* C3: evaluate returns allow iff every rule passes; otherwise the verdict *)
(* is the on_fail value of the first failing rule in bundle order, the     *)
(* reason names that rule and rules_checked is its 1-based position (the   *)
(* rule count on allow).                                                   *)

C3_FirstFailingRuleDecides ==
    e_out.verdict # None =>
        LET fails == Failing(e_in) IN
        /\ (e_out.verdict = "allow") <=> (fails = {})
        /\ fails = {} => e_out.rules_checked = Len(e_in.rules)
        /\ fails # {} =>
             LET k == Min(fails) IN
             /\ e_out.verdict = Get(e_in.rules[k], "on_fail", "deny")
             /\ e_out.reason.rule = Get(e_in.rules[k], "name", e_in.rules[k].type)
             /\ e_out.rules_checked = k

(* C38: every verdict the enforcer returns is one of allow, deny and        *)
(* escalate, and a failing rule never yields allow: a verdict of allow      *)
(* (which Authorize reports as authorized = true and the ledger records as  *)
(* it is) means that every rule of the bundle passed, whatever on_fail      *)
(* values the rules of the loaded bundle carry.                             *)

C38_FailingRuleNeverAllows ==
    e_out.verdict # None =>
        /\ e_out.verdict \in {"allow", "deny", "escalate"}
        /\ e_out.verdict = "allow" => Failing(e_in) = {}

\* The rank of a tier as the policy language defines it
rank == [T4 |-> 1, T3 |-> 2, T2 |-> 3, T1 |-> 4]

\* The rule types whose pass condition is stated below: the six evaluated at
\* the edge and every type outside the closed set of eight
Stated(rule) == rule.type \notin {"status_check", "split_detection"}

\* The pass condition of a rule on the inputs of one evaluation
Normative(rule, in) ==
    IF rule.type = "amount_limit" THEN in.amount <= rule.max_amount
    ELSE IF rule.type = "authority_limit" THEN in.amount <= in.limit
    ELSE IF rule.type = "trust_minimum" THEN in.trust >= rule.min_trust
    ELSE IF rule.type = "tier_required" THEN in.tier \in rule.allowed_tiers
    ELSE IF rule.type = "tier_minimum" THEN rank[in.tier] >= rank[rule.min_tier]
    ELSE IF rule.type = "action_allowed" THEN in.action \in rule.allowed_actions
    ELSE TRUE

(* C19: every rule evaluate went over passed or failed by the normative    *)
(* condition of its type: amount_limit passes iff amount <= max_amount,    *)
(* authority_limit iff amount <= the agent's authority limit,              *)
(* trust_minimum iff trust >= min_trust, tier_required iff the tier is in  *)
(* allowed_tiers, tier_minimum iff rank(tier) >= rank(min_tier) with       *)
(* T4=1, T3=2, T2=3, T1=4, action_allowed iff the action is in             *)
(* allowed_actions, and a rule of a type outside the closed set passes.    *)
(* The rules before position rules_checked passed; the rule at that        *)
(* position failed iff the reason is "Rule failed".                        *)

C19_NormativePassConditions ==
    e_out.verdict # None =>
        LET n == e_out.rules_checked
            failed == e_out.reason.text = "Rule failed"
        IN  \A i \in 1..n :
                Stated(e_in.rules[i]) =>
                    (Normative(e_in.rules[i], e_in) <=> ~(failed /\ i = n))

\* a rule of an unknown type passed and a tier_minimum rule asking for T2
\* then failed for a T4 agent
C19_Witness ==
    /\ e_out.verdict = "deny"
    /\ e_out.rules_checked = 2
    /\ e_in.rules[1].type = "geo_fence"
    /\ e_in.rules[2].type = "tier_minimum"
    /\ e_in.rules[2].min_tier = "T2"
    /\ e_in.tier = "T4"

-----------------------------------------------------------------------------
(* LocalLedger and ControlPlaneSyncClient.flush_ledger, driven call by call: *)
(* decisions are recorded, flushes are started and answered, and            *)
(* mark_synced is called with any list of ids. flush_ledger awaits the      *)
(* POST, so a flush is two steps and other calls run in between.            *)

MaxEntries == 3

\* What is recorded: the flush treats every decision alike
LedgerDecisions == {[agent_id |-> "agent-a", verdict |-> "allow"]}

InitLedger ==
    /\ now = 0
    /\ IdleGateway
    /\ IdlePassport
    /\ IdleEnforcer
    /\ IdleOthers

LedgerRecord ==
    /\ Len(entries) < MaxEntries
    /\ \E d \in LedgerDecisions :
          LET r == record_decision(entries, last_decision_id,
                       LocalDecision(uuid4(entries), now, d.agent_id, "approve_refund",
                                     "orders", 45000, GATEWAY_ENVIRONMENT, d.verdict,
                                     "", "jti-a"))
          IN  /\ entries' = r.entries
              /\ last_decision_id' = r.last_decision_id
    /\ UNCHANGED <<phase, now, mode, revocation_set, rules, policy_version, sync,
                   last_sync, resp, ps_revocation_set, passportVars, enforcerVars, otherVars>>

\* flush_ledger up to the POST: the unsynced entries are read and sent
FlushStart ==
    /\ flush.pc = "idle"
    /\ LET unsynced == get_unsynced(entries) IN
       IF Len(unsynced) = 0
       THEN flush' = [flush EXCEPT !.status = "nothing_to_flush", !.batch = {},
                                   !.late = {}, !.rejected = {}]
       ELSE flush' = [flush EXCEPT !.pc = "posted", !.batch = Ids(unsynced),
                                   !.status = None, !.late = {}, !.rejected = {}]
    /\ UNCHANGED <<now, gatewayVars, ps_revocation_set, passportVars, enforcerVars, anc, pds, laterVars>>

\* A faulty variant of flush_ids: the ids of what is unsynced at the answer
flush_ids_reread(es, batch) == Ids(get_unsynced(es))

\* ids = [e.id for e in unsynced]: the list read before the POST was awaited
flush_ids(es, batch) == batch

\* The body of a 200 answer of POST /ancestor/bulk-record for a batch:
\* {accepted_ids[], rejected: [{id, reason}]}, with at most one id rejected
BulkRecordReports(batch) ==
    {[accepted_ids |-> batch \ rejected, rejected |-> rejected] :
        rejected \in {{}} \cup {{id} : id \in batch}}

\* flush_ledger from the response on; late holds the ids of the records that
\* were made while the POST was awaited, rejected the ids the answer reported
\* as rejected (r.json() is never read)
FlushAnswer ==
    /\ flush.pc = "posted"
    /\ \E status_code \in FlushResponses, report \in BulkRecordReports(flush.batch) :
          LET ids == flush_ids(entries, flush.batch)
              r == flush_answered(entries, ids, status_code) IN
          /\ status_code # 200 => report.rejected = {}
          /\ entries' = r.entries
          /\ flush' = [flush EXCEPT
                         !.pc = "idle",
                         !.status = r.status,
                         !.status_code = status_code,
                         !.owed = IF r.status = "failed" THEN flush.batch ELSE {},
                         !.marked = IF r.status = "flushed" THEN ids ELSE flush.marked,
                         !.late = Ids(get_unsynced(entries)) \ flush.batch,
                         !.rejected = report.rejected]
    /\ UNCHANGED <<phase, now, mode, revocation_set, rules, policy_version,
                   last_decision_id, sync, last_sync, resp, ps_revocation_set,
                   passportVars, enforcerVars, anc, pds, laterVars>>

\* The id lists mark_synced is called with: runs of ids, the last one unknown
IdLists == {a..b : a, b \in 1..(MaxEntries + 1)} \ {{}}

\* LocalLedger.mark_synced called with any ids, known or not
MarkSynced ==
    /\ \E ids \in IdLists :
          /\ entries' = mark_synced(entries, ids)
          /\ flush' = [flush EXCEPT !.marked = ids]
    /\ UNCHANGED <<phase, now, mode, revocation_set, rules, policy_version,
                   last_decision_id, sync, last_sync, resp, ps_revocation_set,
                   passportVars, enforcerVars, anc, pds, laterVars>>

NextLedger ==
    \/ LedgerRecord
    \/ FlushStart
    \/ FlushAnswer
    \/ MarkSynced

SpecLedger == InitLedger /\ [][NextLedger]_vars

FlushStartStep == flush.pc = "idle" /\ flush'.pc = "posted"
FlushAnswerStep == flush.pc = "posted" /\ flush'.pc = "idle"

\* The ids of the entries of es that are not synced
UnsyncedIds(es) == {es[i].id : i \in {j \in 1..Len(es) : ~es[j].synced}}

\* Where the entry with this id sits in es
Position(es, id) == CHOOSE i \in 1..Len(es) : es[i].id = id

(* C11: a flush that is refused or fails (non-200 answer, timeout,          *)
(* connection error) changes no record's synced status: what get_unsynced   *)
(* returned before is what it returns afterwards, and the next flush sends  *)
(* every one of those records that is still unsynced.                       *)

C11_FailedFlushKeepsUnsynced ==
    [][/\ (FlushAnswerStep /\ flush'.status_code # 200)
            => /\ entries' = entries
               /\ get_unsynced(entries') = get_unsynced(entries)
               /\ flush'.status = "failed"
               /\ flush'.owed = flush.batch
       /\ FlushStartStep
            => (flush.owed \cap UnsyncedIds(entries)) \subseteq flush'.batch]_vars

\* a refused batch is on its way again, together with a record made since
C11_Witness ==
    /\ flush.pc = "posted"
    /\ flush.status_code = 503
    /\ flush.owed = {1}
    /\ flush.batch = {1, 2}

(* C12: after mark_synced(ids) no record with an id in ids is returned by   *)
(* get_unsynced again (the flag never reverts, whatever is called later),   *)
(* records with other ids keep their status, the ledger keeps its size and  *)
(* order, and get_unsynced returns the remaining unsynced records in        *)
(* insertion order.                                                         *)

C12_MarkSyncedSticks ==
    [][/\ Len(entries') >= Len(entries)
       /\ \A i \in 1..Len(entries) :
            /\ entries'[i].id = entries[i].id
            /\ entries[i].synced => entries'[i].synced
       /\ MarkSynced =>
            /\ Len(entries') = Len(entries)
            /\ \A i \in 1..Len(entries) :
                 /\ [entries'[i] EXCEPT !.synced = FALSE]
                        = [entries[i] EXCEPT !.synced = FALSE]
                 /\ entries[i].id \in flush'.marked => entries'[i].synced
                 /\ entries[i].id \notin flush'.marked
                        => entries'[i].synced = entries[i].synced
            /\ LET u == get_unsynced(entries') IN
               /\ \A j \in 1..Len(u) : u[j].id \notin flush'.marked /\ ~u[j].synced
               /\ Ids(u) = UnsyncedIds(entries) \ flush'.marked
               /\ \A j, k \in 1..Len(u) :
                    j < k => Position(entries', u[j].id) < Position(entries', u[k].id)]_vars

\* ids 2 to 4 were marked, one of them unknown: the first record is what is left
C12_Witness ==
    /\ Len(entries) = 3
    /\ flush.marked = 2..4
    /\ ~entries[1].synced /\ entries[2].synced /\ entries[3].synced
    /\ Ids(get_unsynced(entries)) = {1}

(* C34: a flush marks as synced only records of the batch it sent, and only *)
(* on a 200 answer: a decision recorded while the flush waits for its       *)
(* answer is not in that batch, is still unsynced when the flush has        *)
(* completed, and is in the batch of the next flush.                        *)

C34_LateRecordStaysUnsynced ==
    [][/\ FlushAnswerStep
            => /\ \A i \in 1..Len(entries) :
                     (entries'[i].synced /\ ~entries[i].synced)
                        => entries[i].id \in flush.batch /\ flush'.status_code = 200
               /\ UnsyncedIds(entries) \ flush.batch \subseteq UnsyncedIds(entries')
               /\ flush'.late \cap flush.batch = {}
       /\ FlushStartStep
            => (flush.late \cap UnsyncedIds(entries)) \subseteq flush'.batch]_vars

(* C35: a flush marks as synced only the records the control plane reported *)
(* as accepted: a record listed as rejected in a 200 bulk-record answer is  *)
(* still unsynced after the flush.                                          *)

C35_RejectedStaysUnsynced ==
    [][(FlushAnswerStep /\ flush'.status_code = 200)
          => /\ flush'.rejected \subseteq UnsyncedIds(entries')
             /\ \A i \in 1..Len(entries) :
                   (entries'[i].synced /\ ~entries[i].synced)
                      => entries[i].id \in flush.batch \ flush'.rejected]_vars

\* the flush of record 1 was acknowledged; record 2, made while it waited,
\* is still unsynced
C34_Witness ==
    /\ flush.pc = "idle"
    /\ flush.status = "flushed"
    /\ flush.batch = {1}
    /\ flush.late = {2}
    /\ entries[1].synced
    /\ ~entries[2].synced

-----------------------------------------------------------------------------
(* ANCESTOR DecisionLedger (crewai-engine/ancestor/decision_ledger.py): the  *)
(* decisions table in insertion order, and DecisionLedger instances that    *)
(* record into it. record() links the decision to the tip it knows, then    *)
(* persists it: two steps, with the calls of other instances in between.    *)

MaxDecisions == 3
DEFAULT_LIMIT == 100

\* DecisionRecord._compute_hash: the digest of id, agent_id, task_id,
\* decision_type, output_action, confidence_score, amount_involved, timestamp
\* and prev_hash
decision_compute_hash(d) ==
    <<d.id, d.agent_id, "task-1", "settlement", "approve", 90, d.amount_involved,
      d.timestamp, d.prev_hash>>

\* DecisionRecord as constructed: prev_hash "", the hash set by __post_init__
DecisionRecord(id, agent_id, amount_involved, timestamp) ==
    LET d == [id |-> id, agent_id |-> agent_id, reasoning_trace |-> "as decided",
              amount_involved |-> amount_involved, timestamp |-> timestamp,
              prev_hash |-> EmptyHash, hash |-> EmptyHash]
    IN  [d EXCEPT !.hash = decision_compute_hash(d)]

\* ORDER BY timestamp ASC
RECURSIVE ByTimestamp(_)
ByTimestamp(rows) ==
    IF rows = {} THEN << >>
    ELSE LET first == CHOOSE r \in rows : \A q \in rows : r.timestamp <= q.timestamp
         IN  <<first>> \o ByTimestamp(rows \ {first})

Rows(store) == {store[i] : i \in 1..Len(store)}

\* _get_last_hash: SELECT hash FROM decisions ORDER BY timestamp DESC LIMIT 1
get_last_hash(store) ==
    IF store = << >> THEN EmptyHash
    ELSE LET rows == ByTimestamp(Rows(store)) IN rows[Len(rows)].hash

\* record, the chain linkage: prev_hash from the tip, the hash recomputed
record_link(last_hash, store, decision) ==
    LET prev_hash == IF last_hash # EmptyHash THEN last_hash ELSE get_last_hash(store)
        d == [decision EXCEPT !.prev_hash = prev_hash]
    IN  [d EXCEPT !.hash = decision_compute_hash(d)]

\* round(pct, 2), in hundredths of a percent
integrity_pct(rows, broken) == ((rows - broken) * 20000 + rows) \div (2 * rows)

\* verify_chain
verify_chain(store, agent_id, limit, db_ok) ==
    LET all == ByTimestamp({r \in Rows(store) : agent_id = None \/ r.agent_id = agent_id})
        rows == SubSeq(all, 1, Min({Len(all), limit}))
        breaks == {i \in 1..Len(rows) :
                     rows[i].prev_hash # (IF i = 1 THEN EmptyHash ELSE rows[i - 1].hash)}
    IN  IF ~db_ok
        THEN [agent_id |-> agent_id, valid |-> FALSE, checked |-> 0, broken_at |-> None,
              integrity_pct |-> 0, note |-> "error"]
        ELSE IF Len(rows) = 0
        THEN [agent_id |-> agent_id, valid |-> TRUE, checked |-> 0, broken_at |-> None,
              integrity_pct |-> 0, note |-> "empty ledger"]
        ELSE [agent_id |-> agent_id, valid |-> breaks = {}, checked |-> Len(rows),
              broken_at |-> IF breaks = {} THEN None ELSE rows[Min(breaks)].id,
              integrity_pct |-> integrity_pct(Len(rows), IF breaks = {} THEN 0 ELSE 1),
              note |-> ""]

InitAncestor ==
    /\ now = 0
    /\ IdleGateway
    /\ IdlePassport
    /\ IdleEnforcer
    /\ IdleOthers

otherThanAnc ==
    <<now, gatewayVars, ps_revocation_set, passportVars, enforcerVars, flush, pds, laterVars>>

\* record() up to the assignment of _last_hash
AncRecord(l) ==
    /\ anc.pending[l] = NoDecision
    /\ anc.created < MaxDecisions
    /\ \E agent_id \in {"agent-a", "agent-b"} :
          LET d == record_link(anc.last_hash[l], anc.store,
                               DecisionRecord(anc.created + 1, agent_id, 45000,
                                              anc.created + 1))
          IN  anc' = [anc EXCEPT !.pending[l] = d,
                                 !.last_hash[l] = d.hash,
                                 !.created = anc.created + 1]
    /\ UNCHANGED otherThanAnc

\* _persist: the INSERT is committed, or it raises and record() with it
AncPersist(l) ==
    /\ anc.pending[l] # NoDecision
    /\ \E committed \in BOOLEAN :
          anc' = [anc EXCEPT
                    !.store = IF committed THEN Append(anc.store, anc.pending[l])
                                           ELSE anc.store,
                    !.pending[l] = NoDecision,
                    !.vc = NoCheck]
    /\ UNCHANGED otherThanAnc

\* Someone with access to the table alters a stored row and leaves its hash
AncTamper ==
    /\ anc.tampered = 0
    /\ \E i \in 1..Len(anc.store) :
          \/ anc' = [anc EXCEPT !.store[i].reasoning_trace = "altered",
                                !.tampered = anc.store[i].id, !.vc = NoCheck]
          \/ anc' = [anc EXCEPT !.store[i].amount_involved = 1,
                                !.tampered = anc.store[i].id, !.vc = NoCheck]
    /\ UNCHANGED otherThanAnc

AncVerifyChain ==
    /\ anc.vc = NoCheck
    /\ \E agent_id \in {None, "agent-a"}, db_ok \in BOOLEAN :
          anc' = [anc EXCEPT !.vc = verify_chain(anc.store, agent_id, DEFAULT_LIMIT, db_ok)]
    /\ UNCHANGED otherThanAnc

NextAncestor ==
    \/ \E l \in Ledgers : AncRecord(l)
    \/ \E l \in Ledgers : AncPersist(l)
    \/ AncTamper
    \/ AncVerifyChain

SpecAncestor == InitAncestor /\ [][NextAncestor]_vars

\* The rows of the table, in the order they were persisted, form one chain
Chained(store) ==
    \A i \in 1..Len(store) :
        store[i].prev_hash = (IF i = 1 THEN EmptyHash ELSE store[i - 1].hash)

(* C13: appends to the ANCESTOR ledger are serialized: under any            *)
(* interleaving of record() calls against one table, also through separate  *)
(* DecisionLedger instances, every record's prev_hash is the hash of the    *)
(* record persisted immediately before it, and no two records share a      *)
(* prev_hash.                                                               *)

C13_AppendsSerialized ==
    /\ Chained(anc.store)
    /\ \A i, j \in 1..Len(anc.store) :
          i # j => anc.store[i].prev_hash # anc.store[j].prev_hash

(* C14: verify_chain detects tampering with a stored record: with three     *)
(* records appended and the stored content of the middle one altered, it    *)
(* returns valid=false, broken_at the middle record's id and integrity_pct  *)
(* 66.67.                                                                   *)

C14_TamperingDetected ==
    (/\ Len(anc.store) = 3
     /\ Chained(anc.store)
     /\ anc.tampered = anc.store[2].id
     /\ anc.vc.note = ""
     /\ anc.vc.agent_id = None)
        => /\ ~anc.vc.valid
           /\ anc.vc.broken_at = anc.store[2].id
           /\ anc.vc.integrity_pct = 6667

\* One DecisionLedger instance wrote every row, each record() call returned,
\* and no stored row was altered
SingleWriterUntampered ==
    /\ anc.tampered = 0
    /\ anc.last_hash["L2"] = EmptyHash
    /\ anc.pending["L2"] = NoDecision
    /\ anc.pending["L1"] = NoDecision
    /\ Len(anc.store) = anc.created

(* C36: on a ledger written only through record() by a single writer and    *)
(* never tampered with, verify_chain reports no break: it returns           *)
(* valid = true for every agent_id filter, also when the records of several *)
(* agents are interleaved in the chain.                                     *)

C36_VerifyChainValid ==
    (SingleWriterUntampered /\ anc.vc.note = "") => anc.vc.valid

\* _persist of instance l returns or raises
AncPersistStep(l) == anc.pending[l] # NoDecision /\ anc'.pending[l] = NoDecision

(* C37: when persisting a decision fails, the chain tip is unchanged: the    *)
(* tip the instance keeps is not the hash of the decision that was never    *)
(* stored, and with a single writer every decision that is persisted has as *)
(* prev_hash the hash of the last row actually stored, so a failed append   *)
(* leaves no gap in the stored chain.                                       *)

C37_FailedPersistKeepsTip ==
    [][\A l \in Ledgers :
          AncPersistStep(l) =>
             /\ anc'.store = anc.store
                   => anc'.last_hash[l] # anc.pending[l].hash
             /\ (/\ anc'.store # anc.store
                 /\ anc.last_hash["L2"] = EmptyHash
                 /\ anc.tampered = 0)
                   => Last(anc'.store).prev_hash
                         = (IF anc.store = << >> THEN EmptyHash
                            ELSE Last(anc.store).hash)]_vars

-----------------------------------------------------------------------------
(* PolicyDistributionService (governance-api/policy/distribution.py):       *)
(* bundles are created and rolled back, and a published bundle, a mutable   *)
(* object its holders share, may be altered after publication.              *)

MaxBundles == 3

\* PolicyRule.to_dict, the fields that vary here
PolicyRule(id, name, active) == [id |-> id, name |-> name, active |-> active]

R1 == PolicyRule("r1", "POL-1", TRUE)
R2 == PolicyRule("r2", "POL-2", TRUE)

RuleLists == {<<R1>>, <<R2, R1>>}

\* PolicyBundle as constructed: the hash set by __post_init__
PolicyBundle(version, rs, parent_hash) ==
    [version |-> version, rules |-> rs, parent_hash |-> parent_hash,
     hash |-> BundleHash(version, rs, parent_hash)]

verify_integrity(b) == b.hash = BundleHash(b.version, b.rules, b.parent_hash)

\* f"v{date}-{len(self._bundles) + 1:03d}"
AutoVersion == <<"v-001", "v-002", "v-003", "v-004", "v-005", "v-006">>

\* The position of the first bundle with this version, 0 for None
get_bundle_by_version(bundles, version) ==
    LET found == {i \in 1..Len(bundles) : bundles[i].version = version}
    IN  IF found = {} THEN 0 ELSE Min(found)

create_bundle(p, rs, version) ==
    LET v == IF version = "" THEN AutoVersion[Len(p.bundles) + 1] ELSE version
        parent_hash == IF p.current # 0 THEN p.bundles[p.current].hash ELSE EmptyHash
    IN  [p EXCEPT
           !.bundles = Append(p.bundles, PolicyBundle(v, rs, parent_hash)),
           !.rollback_stack = IF p.current # 0
                              THEN Append(p.rollback_stack, p.bundles[p.current].version)
                              ELSE p.rollback_stack,
           !.current = Len(p.bundles) + 1,
           !.last = [op |-> "create_bundle", version |-> version,
                     ret |-> Len(p.bundles) + 1]]

\* rollback with a target version
rollback_to(p, target_version) ==
    LET target == get_bundle_by_version(p.bundles, target_version)
    IN  IF target # 0 THEN [p EXCEPT !.current = target, !.last.ret = target]
        ELSE [p EXCEPT !.last.ret = 0]

\* A faulty variant of rollback: the target is published again
rollback_republish(p, target_version) ==
    LET q == [p EXCEPT !.last = [op |-> "rollback", version |-> target_version, ret |-> 0]]
        target == get_bundle_by_version(p.bundles, target_version)
    IN  IF target = 0 THEN q
        ELSE [q EXCEPT !.bundles = Append(p.bundles, p.bundles[target]),
                       !.current = Len(p.bundles) + 1,
                       !.last.ret = Len(p.bundles) + 1]

rollback(p, target_version) ==
    LET q == [p EXCEPT !.last = [op |-> "rollback", version |-> target_version, ret |-> 0]]
    IN  IF target_version # "" THEN rollback_to(q, target_version)
        ELSE IF q.rollback_stack # << >>
        THEN LET n == Len(q.rollback_stack)
                 prev_version == q.rollback_stack[n]
             IN  rollback_to([q EXCEPT !.rollback_stack = SubSeq(q.rollback_stack, 1, n - 1)],
                             prev_version)
        ELSE q

InitPolicies ==
    /\ now = 0
    /\ IdleGateway
    /\ IdlePassport
    /\ IdleEnforcer
    /\ IdleOthers

otherThanPds ==
    <<now, gatewayVars, ps_revocation_set, passportVars, enforcerVars, flush, anc, laterVars>>

PdsCreate ==
    /\ Len(pds.bundles) < MaxBundles
    /\ \E rs \in RuleLists, version \in {"", "v1"} :
          pds' = create_bundle(pds, rs, version)
    /\ UNCHANGED otherThanPds

PdsRollback ==
    /\ \E target_version \in {"", "v1", "v-002", "v9"} :
          pds' = rollback(pds, target_version)
    /\ UNCHANGED otherThanPds

\* A holder of a published bundle changes its version, a rule or its
\* parent_hash; the stored hash stays
PdsAlter ==
    /\ pds.altered = 0
    /\ \E i \in 1..Len(pds.bundles) :
          \/ pds' = [pds EXCEPT !.bundles[i].version = "vX", !.altered = i]
          \/ pds' = [pds EXCEPT !.bundles[i].rules[1].active = FALSE, !.altered = i]
          \/ pds' = [pds EXCEPT !.bundles[i].parent_hash =
                                    BundleHash("v0", << >>, EmptyHash),
                                !.altered = i]
    /\ UNCHANGED otherThanPds

NextPolicies ==
    \/ PdsCreate
    \/ PdsRollback
    \/ PdsAlter

SpecPolicies == InitPolicies /\ [][NextPolicies]_vars

\* The published bundles, in publication order, form one chain
BundlesChained ==
    \A i \in 1..Len(pds.bundles) :
        pds.bundles[i].parent_hash
            = (IF i = 1 THEN EmptyHash ELSE pds.bundles[i - 1].hash)

(* C15: after any sequence of create_bundle and rollback the published      *)
(* bundles, in publication order, form a chain: the first has parent_hash   *)
(* "" and each later one's parent_hash is the hash of the bundle published  *)
(* immediately before it.                                                   *)

C15_BundlesFormChain == pds.altered = 0 => BundlesChained

(* C16: after any sequence of create_bundle and rollback no two published   *)
(* bundles share a parent_hash.                                             *)

C16_NoSharedParent ==
    pds.altered = 0 =>
        \A i, j \in 1..Len(pds.bundles) :
            i # j => pds.bundles[i].parent_hash # pds.bundles[j].parent_hash

(* C17: rollback only repoints current: rollback(v) for a published v makes *)
(* the bundle with version v current and leaves the published bundles as    *)
(* they are; rollback to an unknown version, or with no target and an empty *)
(* rollback stack, returns nothing and leaves current unchanged.            *)

C17_RollbackRepoints ==
    [][PdsRollback =>
         LET n == Len(pds.rollback_stack)
             \* the version asked for, or the one on top of the rollback stack
             t == IF pds'.last.version # "" THEN pds'.last.version
                  ELSE IF n > 0 THEN pds.rollback_stack[n] ELSE ""
             found == get_bundle_by_version(pds.bundles, t)
         IN  /\ pds'.bundles = pds.bundles
             /\ found # 0
                  => /\ pds'.current = found
                     /\ pds'.last.ret = found
                     /\ pds'.bundles[pds'.current].version = t
             /\ found = 0
                  => /\ pds'.last.ret = 0
                     /\ pds'.current = pds.current]_vars

\* two bundles are published and rollback("v1") has made the first current again
C17_Witness ==
    /\ Len(pds.bundles) = 2
    /\ pds.last = [op |-> "rollback", version |-> "v1", ret |-> 1]
    /\ pds.current = 1
    /\ pds.bundles[1].version = "v1"
    /\ pds.altered = 0

\* The same rules in every order
Reorderings(rs) ==
    {[i \in 1..Len(rs) |-> rs[f[i]]] :
        f \in {g \in [1..Len(rs) -> 1..Len(rs)] :
                  \A a, b \in 1..Len(rs) : a # b => g[a] # g[b]}}

IdRank(id) == IF id = "r1" THEN 1 ELSE 2

\* rules sorted by id
SortedById(rs) ==
    CHOOSE r \in Reorderings(rs) :
        \A i, j \in 1..Len(r) : i < j => IdRank(r[i].id) <= IdRank(r[j].id)

(* C18, as stated: every published bundle's hash is the hash of {version,   *)
(* rules sorted by id, parent_hash}, so the same version, parent_hash and   *)
(* rules in a different order give the same hash; verify_integrity is false *)
(* once the version, a rule or the parent_hash was changed.                 *)

-----------------------------------------------------------------------------
(* POST /api/v1/sentinel/evaluate as a function of the agents table, the    *)
(* active policies and the proposed action                                  *)

\* The eight rule types of the policy language
RULE_TYPES ==
    {"amount_limit", "trust_minimum", "tier_required", "tier_minimum",
     "action_allowed", "authority_limit", "status_check", "split_detection"}

AgentA == Agent("AGENT-A", "settlement", "T2", 80, 50000, "active")
AgentB == Agent("AGENT-B", "dispute_resolver", "T4", 55, 0, "suspended")

SentinelPolicies ==
    {Policy("POL-AMT", [RuleDefinition("amount_limit") EXCEPT !.max_amount = 100000],
            "high", "block", {"*"}, {"*"}),
     Policy("POL-TRUST", [RuleDefinition("trust_minimum") EXCEPT !.min_trust = 60],
            "medium", "escalate", {"*"}, {"*"}),
     Policy("POL-STATUS", RuleDefinition("status_check"), "critical", "block", {"*"}, {"*"}),
     Policy("POL-T1", [RuleDefinition("tier_required") EXCEPT !.allowed_tiers = {"T1"}],
            "high", "escalate", {"settlement"}, {"T2", "T3"}),
     Policy("POL-GEO", RuleDefinition("geo_fence"), "critical", "block", {"*"}, {"*"})}

\* policy_code is unique in the policies table
PolicyTables ==
    {ps \in SeqsUpTo(SentinelPolicies, MaxPolicies) :
        \A i, j \in 1..Len(ps) : i # j => ps[i].policy_code # ps[j].policy_code}

EvaluationRequests ==
    [agent : {AgentA, AgentB, NoAgent},
     policies : PolicyTables,
     action : [amount : {45000, 80000}]]

InitSentinel ==
    /\ now = 0
    /\ IdleGateway
    /\ IdlePassport
    /\ IdleEnforcer
    /\ flush = NoFlush
    /\ anc = NoAncestor
    /\ pds = NoBundles
    /\ sen \in [request : EvaluationRequests, out : {NoSentinelVerdict}]
    /\ reg = NoRegistry
    /\ iss = NoIssue
    /\ sdk = NoSdk
    /\ pro = NoProphecy
    /\ ev = NoEvaluations

otherThanSen ==
    <<now, gatewayVars, ps_revocation_set, passportVars, enforcerVars, flush, anc, pds,
      reg, iss, sdk, pro, ev>>

EvaluateAction ==
    /\ sen.out = NoSentinelVerdict
    /\ sen' = [sen EXCEPT !.out = evaluate_action(sen.request.agent, sen.request.policies,
                                                  sen.request.action)]
    /\ UNCHANGED otherThanSen

NextSentinel == EvaluateAction

SpecSentinel == InitSentinel /\ [][NextSentinel]_vars

\* The applicable policies of a request whose rule type is outside the
\* policy language
UnknownTyped(request) ==
    {i \in 1..Len(request.policies) :
        /\ applicable(request.policies[i], request.agent)
        /\ request.policies[i].rule_definition.type \notin RULE_TYPES}

(* C21: the cloud evaluation never counts a policy of an unknown rule type  *)
(* as passed, and it does not approve an action while an applicable policy  *)
(* has a rule type the cloud cannot evaluate.                               *)

C21_UnknownTypeRejected ==
    sen.out.status_code = 200 =>
        /\ \A i \in UnknownTyped(sen.request) :
              \A k \in 1..Len(sen.out.policy_results) :
                  sen.out.policy_results[k].policy_code
                        = sen.request.policies[i].policy_code
                      => ~sen.out.policy_results[k].passed
        /\ UnknownTyped(sen.request) # {} => sen.out.verdict # "approve"

-----------------------------------------------------------------------------
(* ProphecyEngine.simulate, called again and again with the same arguments  *)
(* while the clock moves on                                                 *)

MaxSimulations == 2

Simulations ==
    [agent_id : {"agent-a"}, action_type : {"write"},
     amount : {9000, 10000, 35000, 45000, 80000}, trust_score : {0, 45, 55, 80, 100},
     tier : {"T2", "T4"}, authority_limit : {0, 10000, 50000},
     historical_success_rate : {0, 50, 70, 80, 90, 100}, trigger_reason : {""}]

InitProphecy ==
    /\ now = 0
    /\ IdleGateway
    /\ IdlePassport
    /\ IdleEnforcer
    /\ flush = NoFlush
    /\ anc = NoAncestor
    /\ pds = NoBundles
    /\ sen = NoSentinel
    /\ reg = NoRegistry
    /\ iss = NoIssue
    /\ sdk = NoSdk
    /\ pro \in [args : Simulations, results : {<< >>}]
    /\ ev = NoEvaluations

Simulate ==
    /\ Len(pro.results) < MaxSimulations
    /\ LET a == pro.args IN
       pro' = [pro EXCEPT !.results =
                  Append(@, simulate(a.agent_id, a.action_type, a.amount, a.trust_score,
                                     a.tier, a.authority_limit,
                                     a.historical_success_rate, a.trigger_reason, now))]
    /\ UNCHANGED <<now, gatewayVars, ps_revocation_set, passportVars, enforcerVars,
                   flush, anc, pds, sen, reg, iss, sdk, ev>>

NextProphecy ==
    \/ Simulate
    \/ Tick

SpecProphecy == InitProphecy /\ [][NextProphecy]_vars

\* recommended_path is the path_type of a path of the largest weight, and
\* confidence is min(0.5 + (largest - second largest weight), 1.0)
Recommended(r) ==
    LET n == Len(r.paths)
        w == [i \in 1..n |-> r.paths[i].recommendation_weight]
    IN  /\ {r.paths[i].path_type : i \in 1..n} = {"approve", "deny", "escalate"}
        /\ n = 3
        /\ \E i \in 1..n :
              /\ r.paths[i].path_type = r.recommended_path
              /\ \A j \in 1..n : w[i] >= w[j]
              /\ \E j \in (1..n) \ {i} :
                    /\ \A k \in (1..n) \ {i} : w[j] >= w[k]
                    /\ r.confidence = IF 500 + (w[i] - w[j]) < 1000
                                      THEN 500 + (w[i] - w[j]) ELSE 1000
        /\ r.confidence >= 500
        /\ r.confidence <= 1000

(* C30 as stated: the result of simulate is deterministic (every call with  *)
(* the same input returns the same result), recommended_path is the         *)
(* path_type of a path with the maximum recommendation_weight and           *)
(* confidence = min(0.5 + (highest - second highest weight), 1.0), in       *)
(* [0.5, 1.0].                                                              *)

C30_SimulateDeterministic ==
    \A i \in 1..Len(pro.results) :
        /\ Recommended(pro.results[i])
        /\ \A j \in 1..Len(pro.results) : pro.results[i] = pro.results[j]

(* C30: apart from computed_at, the time of the call, the result of         *)
(* simulate is a function of its input; recommended_path is the path_type   *)
(* of a path with the maximum recommendation_weight among the three paths   *)
(* and confidence = min(0.5 + (highest - second highest weight), 1.0),      *)
(* which lies in [0.5, 1.0].                                                *)

C30_SimulateDeterministicButTime ==
    \A i \in 1..Len(pro.results) :
        /\ Recommended(pro.results[i])
        /\ \A j \in 1..Len(pro.results) :
              [pro.results[i] EXCEPT !.computed_at = 0]
                  = [pro.results[j] EXCEPT !.computed_at = 0]

\* two calls at different times, escalate recommended with a confidence
\* strictly between the bounds
C30_Witness ==
    /\ Len(pro.results) = 2
    /\ pro.results[1].computed_at # pro.results[2].computed_at
    /\ pro.results[2].recommended_path = "escalate"
    /\ pro.results[2].confidence > 500
    /\ pro.results[2].confidence < 1000

PathOf(r, path_type) ==
    r.paths[CHOOSE i \in 1..Len(r.paths) : r.paths[i].path_type = path_type]

(* C31: for every input with amount >= 0, authority_limit >= 0, trust_score *)
(* and historical success rate in [0,1], amounts above the authority limit  *)
(* included, each of the three paths has its risk_score in [0,1] and its    *)
(* recommendation_weight in [0,1] (0..1000 in thousandths).                 *)
C31_PathsInUnitInterval ==
    \A i \in 1..Len(pro.results) :
        \A k \in 1..Len(pro.results[i].paths) :
            LET path == pro.results[i].paths[k] IN
            /\ path.risk_score >= 0
            /\ path.risk_score <= 1000
            /\ path.recommendation_weight >= 0
            /\ path.recommendation_weight <= 1000

\* The input of the worked example: trust 0.55, authority_limit 10000,
\* amount 9000, success rate 0.8
WorkedExample ==
    /\ pro.args.trust_score = 55
    /\ pro.args.authority_limit = 10000
    /\ pro.args.amount = 9000
    /\ pro.args.historical_success_rate = 80

(* C32 as stated: on the worked example the approve path has risk 0.77      *)
(* (0.57 plus the near-limit surcharge of 0.2), trust delta +0.01 and       *)
(* weight 0.147, the escalate weight is 0.585, the deny weight 0.03 and     *)
(* the recommended path is escalate.                                        *)
C32_WorkedExampleAsStated ==
    WorkedExample =>
        \A i \in 1..Len(pro.results) :
            LET r == pro.results[i] IN
            /\ PathOf(r, "approve").risk_score = 770
            /\ PathOf(r, "approve").predicted_trust_delta = 1
            /\ PathOf(r, "approve").recommendation_weight = 147
            /\ PathOf(r, "escalate").recommendation_weight = 585
            /\ PathOf(r, "deny").recommendation_weight = 30
            /\ r.recommended_path = "escalate"

(* C32: on the worked example the authority ratio is exactly 0.9, which is  *)
(* not above 0.90, so no surcharge applies: the approve path has risk 0.57, *)
(* trust delta +0.01 and weight 0.8 * (1 - 0.57) * 0.8 = 0.275; the         *)
(* escalate weight is 0.585, the deny weight 0.03 and the recommended path  *)
(* is escalate.                                                             *)
C32_WorkedExample ==
    WorkedExample =>
        \A i \in 1..Len(pro.results) :
            LET r == pro.results[i] IN
            /\ PathOf(r, "approve").risk_score = 570
            /\ PathOf(r, "approve").predicted_trust_delta = 1
            /\ PathOf(r, "approve").recommendation_weight = 275
            /\ PathOf(r, "escalate").recommendation_weight = 585
            /\ PathOf(r, "deny").recommendation_weight = 30
            /\ r.recommended_path = "escalate"

C32_Witness ==
    /\ WorkedExample
    /\ Len(pro.results) >= 1
    /\ pro.results[1].recommended_path = "escalate"

-----------------------------------------------------------------------------
(* The enforcer while bundles are swapped and /authorize calls evaluate.    *)
(* In the gateway everything runs on one event loop and evaluate holds no   *)
(* await, so a swap cannot fall inside an evaluation; here a swap may fall  *)
(* between any two turns of the loop, which also covers a threaded server.  *)

MaxLoads == 2

SwapBundles ==
    {[rules |-> <<POL4, POL9>>, version |-> "v1"],
     [rules |-> <<POL9, POL2>>, version |-> "v2"]}

SwapArgs ==
    [tier : {"T2", "T4"}, trust : {80}, limit : {50000}, action : {"write"},
     amount : {45000, 80000}]

InitSwap ==
    /\ now = 0
    /\ IdleGateway
    /\ IdlePassport
    /\ IdleEnforcer
    /\ IdleOthers

otherThanEv ==
    <<now, gatewayVars, ps_revocation_set, passportVars, enforcerVars, flush, anc, pds,
      sen, reg, iss, sdk, pro>>

\* sync_policies hands a pulled bundle to load_policy_bundle
EvLoad ==
    /\ ev.loads < MaxLoads
    /\ \E b \in SwapBundles :
          LET l == load_policy_bundle(b.rules, b.version) IN
          ev' = [ev EXCEPT !.rules = l.rules, !.policy_version = l.policy_version,
                           !.loads = @ + 1,
                           !.calls = [c \in Callers |->
                                        IF ev.calls[c].pc = "running"
                                        THEN [ev.calls[c] EXCEPT !.seen = @ \cup {l.rules}]
                                        ELSE ev.calls[c]]]
    /\ UNCHANGED otherThanEv

\* evaluate is entered: the loop takes hold of the current list
EvBegin(c) ==
    /\ ev.calls[c].pc = "idle"
    /\ \E args \in SwapArgs :
          ev' = [ev EXCEPT !.calls[c] =
                    [pc |-> "running", args |-> args, snapshot |-> ev.rules,
                     checked |-> 0, verdict |-> NoVerdict, seen |-> {ev.rules}]]
    /\ UNCHANGED otherThanEv

EvTurn(c) ==
    /\ ev.calls[c].pc = "running"
    /\ ev' = [ev EXCEPT !.calls[c] = evaluate_turn(ev.calls[c], ev.rules)]
    /\ UNCHANGED otherThanEv

NextSwap ==
    \/ EvLoad
    \/ \E c \in Callers : EvBegin(c)
    \/ \E c \in Callers : EvTurn(c)

SpecSwap == InitSwap /\ [][NextSwap]_vars

Verdict(rs, args) ==
    evaluate(rs, args.tier, args.trust, args.limit, args.action, args.amount)

(* C24: a bundle swap while /authorize calls are in flight is atomic for    *)
(* each of them: the verdict an evaluation returns is the verdict of the    *)
(* complete rule list of one bundle that was current during the call (the   *)
(* old one or a new one), never of a mixture of two bundles.                *)

C24_SwapIsAtomic ==
    \A c \in Callers :
        ev.calls[c].pc = "done" =>
            \E rs \in ev.calls[c].seen : ev.calls[c].verdict = Verdict(rs, ev.calls[c].args)

\* a call has returned that saw two bundles with different verdicts, after
\* at least one rule of the first had passed
C24_Witness ==
    \E c \in Callers :
        /\ ev.calls[c].pc = "done"
        /\ ev.calls[c].verdict.rules_checked = 2
        /\ \E rs \in ev.calls[c].seen :
              Verdict(rs, ev.calls[c].args).verdict # ev.calls[c].verdict.verdict

-----------------------------------------------------------------------------
(* EnvironmentRegistry driven heartbeat by heartbeat while the clock moves  *)

MaxHeartbeats == 3

HeartbeatEnvironments == {"client", "cloud", "mars"}
Hosts == {"h1", "h2"}

InitRegistry ==
    /\ now = 0
    /\ IdleGateway
    /\ IdlePassport
    /\ IdleEnforcer
    /\ IdleOthers

HeartbeatCall ==
    /\ Len(reg.calls) < MaxHeartbeats
    /\ \E agent_id \in RegistryAgents, environment \in HeartbeatEnvironments,
          host_id \in Hosts :
          LET r == heartbeat(reg, agent_id, environment, host_id, now) IN
          reg' = [locations |-> r.locations, history |-> r.history, alerts |-> r.alerts,
                  calls |-> Append(reg.calls,
                                   [agent_id |-> agent_id, environment |-> environment,
                                    host_id |-> host_id, at |-> now,
                                    status |-> r.ret.status])]
    /\ UNCHANGED <<now, gatewayVars, ps_revocation_set, passportVars, enforcerVars,
                   flush, anc, pds, sen, iss, sdk, pro, ev>>

NextRegistry ==
    \/ HeartbeatCall
    \/ Tick

SpecRegistry == InitRegistry /\ [][NextRegistry]_vars

\* The heartbeats for agent a among the first n calls that were not rejected
Accepted(a, n) ==
    {k \in 1..n : reg.calls[k].agent_id = a /\ reg.calls[k].status # "error"}

RECURSIVE EnvironmentsOf(_, _)
EnvironmentsOf(a, n) ==
    IF n = 0 THEN << >>
    ELSE IF n \in Accepted(a, n)
         THEN Append(EnvironmentsOf(a, n - 1), reg.calls[n].environment)
         ELSE EnvironmentsOf(a, n - 1)

Alerting(n) == {k \in 1..n : reg.calls[k].status = "alert"}

(* C25: heartbeats are last-writer-wins per agent. After any sequence of    *)
(* heartbeats get_location(a) is the record (environment, host, last_seen)  *)
(* written by the most recent heartbeat for a that was accepted, one that   *)
(* returned an alert included, and nothing before a's first accepted        *)
(* heartbeat; a heartbeat rejected for an unknown environment changes       *)
(* neither a's location nor its history nor the alert list, and a           *)
(* heartbeat for one agent never changes another agent's location.          *)

C25_LastWriterWins ==
    LET n == Len(reg.calls) IN
    /\ \A k \in 1..n :
          reg.calls[k].status = "error" <=> reg.calls[k].environment \notin ENVIRONMENT_TYPES
    /\ \A a \in RegistryAgents :
          /\ IF Accepted(a, n) = {}
             THEN get_location(reg, a) = NoLocation
             ELSE LET h == reg.calls[Max(Accepted(a, n))] IN
                  get_location(reg, a) = AgentLocation(a, h.environment, h.host_id, h.at)
          /\ get_environment_history(reg, a) = EnvironmentsOf(a, n)
    /\ Len(reg.alerts) = Cardinality(Alerting(n))

\* agent-a's location is the one of a heartbeat that returned an alert; a
\* later heartbeat of agent-a was rejected and agent-b has reported since
C25_Witness ==
    /\ Len(reg.calls) = 3
    /\ reg.calls[1].agent_id = "agent-a"
    /\ reg.calls[2].agent_id = "agent-a"
    /\ reg.calls[2].status = "alert"
    /\ reg.calls[3].agent_id = "agent-a"
    /\ reg.calls[3].status = "error"
    /\ reg.calls[3].at > reg.calls[2].at
    /\ get_location(reg, "agent-a").environment = "cloud"

\* The environment agent a was last recorded in before call k
PreviousEnvironment(a, k) ==
    IF Accepted(a, k - 1) = {} THEN None
    ELSE reg.calls[Max(Accepted(a, k - 1))].environment

(* C26: an accepted heartbeat for agent a in environment e returns alert,   *)
(* and appends exactly one alert to the alert list, exactly when a's        *)
(* previously recorded environment is client and e is cloud; a first        *)
(* heartbeat, a heartbeat in the same environment and every other           *)
(* transition return ok and append no alert.                                *)

C26_AlertOnForbiddenCrossing ==
    LET n == Len(reg.calls) IN
    /\ \A k \in 1..n :
          LET h == reg.calls[k]
              forbidden == PreviousEnvironment(h.agent_id, k) = "client"
                              /\ h.environment = "cloud"
          IN  h.status # "error" =>
                 /\ h.status = "alert" <=> forbidden
                 /\ h.status = "ok" <=> ~forbidden
    /\ Len(reg.alerts) = Cardinality(Alerting(n))
    /\ \A i \in 1..Len(reg.alerts) :
          /\ reg.alerts[i].from = "client"
          /\ reg.alerts[i].to = "cloud"
          /\ \E k \in Alerting(n) :
                /\ Cardinality(Alerting(k)) = i
                /\ reg.alerts[i].agent_id = reg.calls[k].agent_id
                /\ reg.alerts[i].host_id = reg.calls[k].host_id

\* client then cloud raised the one alert; the way back to client did not
C26_Witness ==
    /\ Len(reg.calls) = 3
    /\ Len(reg.alerts) = 1
    /\ reg.calls[1].environment = "client"
    /\ reg.calls[2].status = "alert"
    /\ reg.calls[3].agent_id = reg.calls[2].agent_id
    /\ reg.calls[3].environment = "client"
    /\ reg.calls[3].status = "ok"

-----------------------------------------------------------------------------
(* Passport construction and issuance: AgentPassport.__post_init__ and      *)
(* PassportService.issue on passport data of every shape a caller can pass. *)
(* An optional field is a sequence of length zero (None) or one.            *)

MaxIssues == 2      \* passports constructed

VALID_ENVIRONMENTS == {"cloud", "edge", "client", "on-premise"}

TIER_AUTHORITY_LIMITS(tier) ==
    CASE tier = "T1" -> 100000
      [] tier = "T2" -> 50000
      [] tier = "T3" -> 10000
      [] tier = "T4" -> 0
      [] OTHER -> 0

\* The keyword arguments of AgentPassport(...)
PassportData(agent_id, jti, tier, trust_score, authority_limit, envs, issued_at, expires_at) ==
    [agent_id |-> agent_id, jti |-> jti, tier |-> tier, trust_score |-> trust_score,
     authority_limit |-> authority_limit, allowed_environments |-> envs,
     issued_at |-> issued_at, expires_at |-> expires_at]

\* AgentPassport.__post_init__: the defaults, then the environment check
post_init(d) ==
    LET expires_at == IF d.expires_at = << >> THEN d.issued_at + TOKEN_TTL_HOURS
                      ELSE d.expires_at[1]
        authority_limit == IF d.authority_limit = 0 THEN TIER_AUTHORITY_LIMITS(d.tier)
                           ELSE d.authority_limit
        invalid == d.allowed_environments \ VALID_ENVIRONMENTS
    IN  IF invalid # {}
        THEN [raised |-> "ValueError", passport |-> << >>]
        ELSE [raised |-> None,
              passport |-> AgentPassport(d.agent_id, d.jti, expires_at, d.tier,
                                         d.trust_score, authority_limit,
                                         d.allowed_environments)]

EnvironmentLists ==
    {{}, {"cloud"}, {"cloud", "edge"}, {"mars"}, {"edge", "mars"}}

Expiries == {<< >>} \cup {<<t>> : t \in 0..MaxTime}

IssueData(t) ==
    {PassportData("agent-a", "jti-a", "T2", 71, 0, envs, t, expires_at) :
        envs \in EnvironmentLists, expires_at \in Expiries}

InitIssue ==
    /\ now = 0
    /\ IdleGateway
    /\ IdlePassport
    /\ IdleEnforcer
    /\ IdleOthers

otherThanIss ==
    <<gatewayVars, ps_revocation_set, passportVars, enforcerVars, flush, anc, pds,
      sen, reg, sdk, pro, ev>>

\* AgentPassport(**data): a ValueError leaves no passport to issue
Construct ==
    /\ iss.pc = "idle"
    /\ Len(iss.log) < MaxIssues
    /\ \E d \in IssueData(now) :
          LET r == post_init(d) IN
          IF r.raised # None
          THEN iss' = [iss EXCEPT !.log = Append(@, [data |-> d, raised |-> r.raised,
                                                     iat |-> now, exp |-> now,
                                                     tokens |-> {}])]
          ELSE iss' = [iss EXCEPT !.pc = "built",
                                  !.passport = <<r.passport>>,
                                  !.log = Append(@, [data |-> d, raised |-> None,
                                                     iat |-> now,
                                                     exp |-> r.passport.expires_at,
                                                     tokens |-> {}])]
    /\ UNCHANGED <<now, otherThanIss>>

\* PassportService.issue(passport): iat is the clock at the call
IssueToken ==
    /\ iss.pc = "built"
    /\ LET n == Len(iss.log) IN
       iss' = [iss EXCEPT !.pc = "idle",
                          !.passport = << >>,
                          !.log[n].iat = now,
                          !.log[n].tokens = {issue(iss.passport[1], JWT_SECRET)}]
    /\ UNCHANGED <<now, otherThanIss>>

NextIssue ==
    \/ Construct
    \/ IssueToken
    \/ Tick

SpecIssue == InitIssue /\ [][NextIssue]_vars

\* Invalid passport data, for an attempt that has ended: its iat is the clock
\* at the issue call
InvalidPassportData(c) ==
    \/ c.data.allowed_environments \ VALID_ENVIRONMENTS # {}
    \/ c.data.allowed_environments = {}
    \/ c.exp <= c.iat

(* C28: no token comes out of invalid passport data: an attempt whose       *)
(* allowed_environments is empty or holds a value outside {cloud, edge,     *)
(* client, on-premise}, or whose expiry is not later than its issue time,   *)
(* ends with an error and without a token.                                  *)
C28_IssueRejectsInvalid ==
    \A k \in DOMAIN iss.log :
        (k < Len(iss.log) \/ iss.pc = "idle") /\ InvalidPassportData(iss.log[k])
            => iss.log[k].raised # None /\ iss.log[k].tokens = {}

-----------------------------------------------------------------------------
(* The client SDK: GovernanceClient.authorize against every answer the HTTP *)
(* call to the edge gateway can end with.                                   *)

MaxSdkCalls == 2    \* authorize() calls through one client

\* dict.get(key, default)
dict_get(d, key, default) == IF key \in DOMAIN d THEN d[key] ELSE default

\* What client.post(...) ends with: an exception of the transport, or a
\* response with a status code and a JSON body
HttpAnswer(kind, status_code, body) ==
    [kind |-> kind, status_code |-> status_code, body |-> body]

\* The bodies of the gateway's /authorize: an AuthorizeResponse, or the
\* detail of an HTTPException
AuthorizeBody(authorized, verdict, decision_id) ==
    [authorized |-> authorized, verdict |-> verdict, decision_id |-> decision_id,
     mode |-> "connected"]

GatewayAnswers ==
    {HttpAnswer("ConnectError", 0, [detail |-> ""]),
     HttpAnswer("ReadTimeout", 0, [detail |-> ""]),
     HttpAnswer("response", 200, AuthorizeBody(TRUE, "allow", "d1")),
     HttpAnswer("response", 200, AuthorizeBody(FALSE, "deny", "d2")),
     HttpAnswer("response", 200, AuthorizeBody(FALSE, "escalate", "d3")),
     HttpAnswer("response", 401, [detail |-> "Invalid passport: revoked"]),
     HttpAnswer("response", 422, [detail |-> "validation error"]),
     HttpAnswer("response", 500, [detail |-> "Internal Server Error"])}

AuthorizationResult(authorized, verdict, decision_id, m) ==
    [authorized |-> authorized, verdict |-> verdict, decision_id |-> decision_id,
     mode |-> m]

\* resp.raise_for_status(): HTTPStatusError for a 4xx or 5xx response
raises_for_status(answer) == answer.status_code >= 400

\* The except Exception branch of authorize
on_exception(fail_open, answer) ==
    IF fail_open
    THEN AuthorizationResult(TRUE, "allow", "offline", "offline")
    ELSE AuthorizationResult(FALSE, "deny", "offline", "offline")

\* GovernanceClient.authorize, given what the POST ended with
sdk_authorize(fail_open, answer) ==
    IF answer.kind = "response" /\ ~raises_for_status(answer)
    THEN AuthorizationResult(dict_get(answer.body, "authorized", FALSE),
                             dict_get(answer.body, "verdict", "deny"),
                             dict_get(answer.body, "decision_id", ""),
                             dict_get(answer.body, "mode", "online"))
    ELSE on_exception(fail_open, answer)

InitSdk ==
    /\ now = 0
    /\ IdleGateway
    /\ IdlePassport
    /\ IdleEnforcer
    /\ IdleOthers

otherThanSdk ==
    <<now, gatewayVars, ps_revocation_set, passportVars, enforcerVars, flush, anc, pds,
      sen, reg, iss, pro, ev>>

\* GovernanceClient(passport_token, fail_open=...)
NewClient ==
    /\ sdk.pc = "unbuilt"
    /\ \E fail_open \in BOOLEAN :
          sdk' = [sdk EXCEPT !.pc = "ready", !.fail_open = fail_open]
    /\ UNCHANGED otherThanSdk

\* gov.authorize(action, resource, amount)
SdkAuthorize ==
    /\ sdk.pc = "ready"
    /\ Len(sdk.log) < MaxSdkCalls
    /\ \E answer \in GatewayAnswers :
          LET result == sdk_authorize(sdk.fail_open, answer) IN
          sdk' = [sdk EXCEPT
                     !.last_decision_id =
                         IF answer.kind = "response" /\ ~raises_for_status(answer)
                         THEN result.decision_id ELSE @,
                     !.log = Append(@, [answer |-> answer, result |-> result])]
    /\ UNCHANGED otherThanSdk

NextSdk ==
    \/ NewClient
    \/ SdkAuthorize

SpecSdk == InitSdk /\ [][NextSdk]_vars

(* C29: authorize returns authorized = true only when the edge gateway      *)
(* answered with verdict allow, or when the gateway could not be reached    *)
(* and fail_open is true; an error response of a reachable gateway (a 401   *)
(* for an invalid or revoked passport) never becomes authorized = true.     *)
C29_AuthorizedOnlyOnAllow ==
    \A k \in DOMAIN sdk.log :
        LET c == sdk.log[k] IN
        c.result.authorized
            => \/ /\ c.answer.kind = "response"
                  /\ c.answer.status_code = 200
                  /\ c.answer.body.verdict = "allow"
               \/ /\ c.answer.kind # "response"
                  /\ sdk.fail_open

====
